---- MODULE Spec2Model ----
(***************************************************************************)
(* situation-monitor: polling scheduler, health tracker, store, clusterer  *)
(* and event bus, modelled from src/.                                      *)
(*                                                                         *)
(* Time is a discrete clock `now` in seconds; every clock read made by one *)
(* call (datetime.now / _utc_now_iso) falls in the same tick.  Timestamps  *)
(* are the integers of that clock, so the ISO-8601 string comparisons of   *)
(* the SQL are integer comparisons here.                                   *)
(***************************************************************************)
EXTENDS Integers, Sequences, FiniteSets, TLC

(***************************************************************************)
(* Values                                                                  *)
(***************************************************************************)
\* SQL NULL / Python None is the empty tuple, a present value v is <<v>>.
None == <<>>
Some(v) == <<v>>
IsNone(o) == o = <<>>
Get(o) == o[1]

Min(a, b) == IF a <= b THEN a ELSE b
Max(a, b) == IF a >= b THEN a ELSE b

(***************************************************************************)
(* Bounds of the model                                                     *)
(***************************************************************************)
\* the clock advances in ticks of TickSeconds and stops after MaxHours hours
TickSeconds == 3600
MaxHours == 1
\* health-tracker calls made in one behaviour of SpecHealth
MaxCalls == 3

(***************************************************************************)
(* Store: schema of the sources table (store/db.py, migration 1)           *)
(***************************************************************************)
\* The columns CREATE TABLE IF NOT EXISTS sources declares.  name, source_type
\* and url are columns too; no modelled statement reads them after
\* ensure_sources, so the rows here do not carry them.
SourcesColumns ==
    {"source_id", "poll_interval_seconds", "enabled", "etag", "last_modified",
     "next_fetch_at", "last_fetch_at", "last_success_at", "last_error_at",
     "consecutive_failures", "last_status_code", "last_fetch_ms", "last_error"}

\* Columns that statements of the health tracker and of the scheduler name but
\* that no migration of store/db.py adds.
CounterColumns == {"success_count", "error_count", "cursor"}

\* open_database keeps the tables of an existing file (CREATE TABLE IF NOT
\* EXISTS; a migration already recorded is skipped): the sources table has the
\* columns of migration 1 when open_database creates the file, and may have
\* more when the file already held the table.
SourcesSchemas == {SourcesColumns, SourcesColumns \cup CounterColumns}

\* The registry: source_id -> plugin (poll interval in seconds, host of the
\* plugin's url).  The plugins s1 .. s7 stand for the lists of phase1_sources ..
\* feed_pack_sources; the intervals are those of reddit_* (240), nvd_cves-like
\* feeds (900) and a short feed-pack interval (30).  s3 and s4 have urls on
\* the same host, as the reddit_* plugins do.
\* d1 .. d13 stand for a registry with more plugins than the due query returns
\* rows; DueRank is their order in the list.
DuePlugins == {"d1", "d2", "d3", "d4", "d5", "d6", "d7", "d8", "d9", "d10", "d11", "d12", "d13"}
DueRank ==
    [d1 |-> 1, d2 |-> 2, d3 |-> 3, d4 |-> 4, d5 |-> 5, d6 |-> 6, d7 |-> 7, d8 |-> 8,
     d9 |-> 9, d10 |-> 10, d11 |-> 11, d12 |-> 12, d13 |-> 13]
PluginIds == {"s1", "s2", "s3", "s4", "s5", "s6", "s7", "s8"} \cup DuePlugins
plugin_poll ==
    [p \in PluginIds |->
        CASE p = "s1" -> 240 [] p = "s2" -> 900 [] p = "s8" -> 21600 [] OTHER -> 30]
plugin_host ==
    [p \in PluginIds |->
        CASE p = "s1" -> "h1" [] p = "s2" -> "h2" [] p \in {"s3", "s4"} -> "h3"
          [] p = "s5" -> "h5" [] p = "s6" -> "h6" [] OTHER -> "h7"]

\* ensure_sources: INSERT OR IGNORE of one row per plugin, next_fetch_at = now,
\* every other column at its DEFAULT.
NewSourceRow(cols, p, t) ==
    [c \in cols |->
        CASE c = "source_id" -> p
          [] c = "poll_interval_seconds" -> plugin_poll[p]
          [] c = "enabled" -> 1
          [] c = "next_fetch_at" -> Some(t)
          [] c = "consecutive_failures" -> 0
          [] c = "success_count" -> 0
          [] c = "error_count" -> 0
          [] OTHER -> None]

\* The database as one connection sees it: its tables.
\* sources: source_id -> row; items: item_id -> row; incidents: incident_id
\* -> row; links: the (incident_id, item_id) rows of incident_items; polling:
\* app_config's polling_enabled value, None when the key is absent.
EmptyDb(cols) ==
    [sources_cols |-> cols,
     sources |-> [p \in {} |-> <<>>],
     items |-> [i \in {} |-> <<>>],
     incidents |-> [i \in {} |-> <<>>],
     links |-> {},
     polling |-> None]

ensure_sources(db, plugins, t) ==
    [db EXCEPT !.sources =
        [p \in (DOMAIN db.sources) \cup plugins |->
            IF p \in DOMAIN db.sources THEN db.sources[p]
            ELSE NewSourceRow(db.sources_cols, p, t)]]

\* UPDATE sources SET <assign> WHERE source_id = s.  sqlite3 prepares the
\* statement first: a column the table does not have raises OperationalError
\* ("no such column") whether or not a row matches, and changes nothing.
SqlColumnsOk(db, used) == used \subseteq db.sources_cols

\* SELECT ... FROM sources WHERE source_id = s: the row or None.
RowOf(db, s) == IF s \in DOMAIN db.sources THEN Some(db.sources[s]) ELSE None

UpdateSourceRow(db, s, assign) ==
    IF s \in DOMAIN db.sources
    THEN [db EXCEPT !.sources[s] =
            [c \in DOMAIN db.sources[s] |->
                IF c \in DOMAIN assign THEN assign[c] ELSE db.sources[s][c]]]
    ELSE db

(***************************************************************************)
(* Health tracker (health/health.py)                                       *)
(***************************************************************************)
MaxBackoff == 3600

compute_backoff_seconds(poll_interval_seconds, consecutive_failures) ==
    IF consecutive_failures <= 0 THEN poll_interval_seconds
    ELSE Min(MaxBackoff, poll_interval_seconds * (2 ^ consecutive_failures))

\* A call's outcome: the exception it raised ("none" when it returned), the
\* connection's and the committed database afterwards, the value returned.
Outcome(raised, c, d, ret) == [raised |-> raised, conn |-> c, disk |-> d, ret |-> ret]

record_fetch_success(c, d, t, source_id, status_code, fetch_ms, etag, last_modified, next_fetch_in_seconds) ==
    LET used == {"last_fetch_at", "last_success_at", "last_status_code",
                 "last_fetch_ms", "consecutive_failures", "last_error",
                 "last_error_at", "success_count", "etag", "last_modified",
                 "next_fetch_at", "source_id"}
    IN  IF ~SqlColumnsOk(c, used)
        THEN Outcome("OperationalError", c, d, None)
        ELSE LET assign ==
                    [last_fetch_at |-> Some(t),
                     last_success_at |-> Some(t),
                     last_status_code |-> Some(status_code),
                     last_fetch_ms |-> Some(fetch_ms),
                     consecutive_failures |-> 0,
                     last_error |-> None,
                     last_error_at |-> None,
                     success_count |->
                        IF source_id \in DOMAIN c.sources
                        THEN c.sources[source_id]["success_count"] + 1 ELSE 0,
                     etag |-> etag,
                     last_modified |-> last_modified,
                     next_fetch_at |-> Some(t + next_fetch_in_seconds)]
                 c2 == UpdateSourceRow(c, source_id, assign)
             IN  Outcome("none", c2, c2, None)

\* record_fetch_error without the db.conn.commit() of line 116.
record_fetch_error_noCommit(c, d, t, source_id, status_code, fetch_ms, error) ==
    IF source_id \notin DOMAIN c.sources
    THEN Outcome("none", c, d, 300)
    ELSE
    LET row == c.sources[source_id]
        poll_seconds == row["poll_interval_seconds"]
        failures == row["consecutive_failures"] + 1
        backoff_seconds == compute_backoff_seconds(poll_seconds, failures)
        used == {"last_fetch_at", "last_error_at", "last_status_code",
                 "last_fetch_ms", "consecutive_failures", "last_error",
                 "error_count", "next_fetch_at", "source_id"}
    IN  IF ~SqlColumnsOk(c, used)
        THEN Outcome("OperationalError", c, d, None)
        ELSE LET assign ==
                    [last_fetch_at |-> Some(t),
                     last_error_at |-> Some(t),
                     last_status_code |->
                        IF IsNone(status_code) THEN row["last_status_code"]
                        ELSE status_code,
                     last_fetch_ms |->
                        IF IsNone(fetch_ms) THEN row["last_fetch_ms"]
                        ELSE fetch_ms,
                     consecutive_failures |-> failures,
                     last_error |-> Some(error),
                     error_count |-> row["error_count"] + 1,
                     next_fetch_at |-> Some(t + backoff_seconds)]
                 c2 == UpdateSourceRow(c, source_id, assign)
             IN  Outcome("none", c2, d, backoff_seconds)

record_fetch_error(c, d, t, source_id, status_code, fetch_ms, error) ==
    IF source_id \notin DOMAIN c.sources
    THEN Outcome("none", c, d, 300)
    ELSE
    LET row == c.sources[source_id]
        poll_seconds == row["poll_interval_seconds"]
        failures == row["consecutive_failures"] + 1
        backoff_seconds == compute_backoff_seconds(poll_seconds, failures)
        used == {"last_fetch_at", "last_error_at", "last_status_code",
                 "last_fetch_ms", "consecutive_failures", "last_error",
                 "error_count", "next_fetch_at", "source_id"}
    IN  IF ~SqlColumnsOk(c, used)
        THEN Outcome("OperationalError", c, d, None)
        ELSE LET assign ==
                    [last_fetch_at |-> Some(t),
                     last_error_at |-> Some(t),
                     last_status_code |->
                        IF IsNone(status_code) THEN row["last_status_code"]
                        ELSE status_code,
                     last_fetch_ms |->
                        IF IsNone(fetch_ms) THEN row["last_fetch_ms"]
                        ELSE fetch_ms,
                     consecutive_failures |-> failures,
                     last_error |-> Some(error),
                     error_count |-> row["error_count"] + 1,
                     next_fetch_at |-> Some(t + backoff_seconds)]
                 c2 == UpdateSourceRow(c, source_id, assign)
             IN  Outcome("none", c2, c2, backoff_seconds)

(***************************************************************************)
(* simhash64 and hamming_distance (cluster/clusterer.py:58-85)             *)
(***************************************************************************)
\* blake2b(token, digest_size=8) as the set of the bit positions that are 1
\* (bit 0 the least significant), for the tokens of RecordPool.
TokenHash ==
    [quake |-> {1, 4, 5, 6, 8, 11, 16, 17, 18, 20, 21, 26, 27, 28, 29, 30, 31, 32, 33, 34, 35, 36, 37, 38, 39, 45, 48, 50, 53, 55, 56, 57, 58, 61},
     tokyo |-> {2, 5, 8, 13, 17, 18, 21, 22, 24, 25, 26, 27, 33, 34, 35, 36, 37, 38, 40, 44, 46, 47, 49, 50, 51, 56, 59, 60, 61, 62},
     osaka |-> {0, 2, 3, 7, 9, 10, 11, 12, 13, 15, 18, 21, 22, 23, 24, 25, 27, 30, 35, 37, 38, 40, 41, 43, 44, 50, 53, 54, 55, 58, 59, 62},
     strong |-> {0, 2, 3, 5, 10, 15, 17, 20, 22, 23, 24, 25, 26, 27, 35, 36, 37, 40, 41, 42, 43, 45, 46, 48, 49, 52, 54, 55, 56, 58, 59, 60, 61, 62, 63},
     flood |-> {2, 3, 4, 6, 7, 8, 9, 10, 13, 14, 15, 17, 18, 19, 20, 21, 22, 24, 25, 26, 27, 29, 30, 35, 36, 37, 39, 40, 41, 45, 47, 51, 52, 56, 58, 62},
     alert |-> {0, 1, 3, 10, 11, 12, 13, 17, 18, 20, 23, 24, 25, 27, 29, 32, 35, 36, 37, 44, 45, 47, 50, 51, 52, 53, 55, 56, 57},
     storm |-> {1, 2, 3, 4, 7, 9, 10, 12, 13, 14, 16, 19, 20, 23, 24, 26, 27, 28, 30, 32, 35, 36, 37, 38, 39, 40, 47, 49, 52, 54, 56, 57, 58, 59, 60},
     coast |-> {1, 7, 9, 10, 11, 12, 13, 14, 17, 18, 20, 24, 25, 28, 29, 30, 32, 36, 39, 40, 41, 44, 45, 49, 50, 52, 55, 57, 58, 59, 60, 61, 62},
     japan |-> {1, 2, 4, 5, 6, 7, 8, 9, 11, 12, 13, 16, 18, 20, 23, 25, 26, 28, 33, 36, 38, 39, 41, 43, 47, 48, 50, 51, 54, 55, 56, 57, 59, 60, 61, 62}]

\* The sum line 71-75 accumulates for one bit: +1 for every occurrence of a
\* token whose hash has the bit, -1 for every other occurrence.
RECURSIVE BitVote(_, _)
BitVote(text, bit) ==
    IF text = <<>> THEN 0
    ELSE (IF bit \in TokenHash[Head(text)] THEN 1 ELSE -1) + BitVote(Tail(text), bit)

\* simhash64 of a token sequence: the set of the bits of the 64-bit result.
simhash64(text) == IF text = <<>> THEN {} ELSE {b \in 0..63 : BitVote(text, b) > 0}

hamming_distance(a, b) == Cardinality((a \ b) \cup (b \ a))

\* (simhash >> 48) & 0xFFFF
Bucket(sim) == sim \cap 48..63

TokenSet(text) == {text[i] : i \in DOMAIN text}

(***************************************************************************)
(* Work unit: normalized records and the insertion block of _run_one       *)
(* (ingest/scheduler.py:1275-1480)                                         *)
(***************************************************************************)
\* A record as plugin.normalize and the location enrichment (scheduler.py:
\* 1302-1365) leave it: the item's columns that the later code reads.  title
\* and summary are token sequences; hash_title is SHA-256 of the normalized
\* title and is stood for by the title itself.  loc is <<lat, lon>>, counted
\* in half degrees, or None; geom is the geometry of geom_geojson or None;
\* ctry is the record's location_name: "none" when the item has none,
\* otherwise the name find_country_centroid is asked for.  published_at is
\* a text: the model keeps its date and time of day in seconds, which is what
\* the comparisons of the code (all of them comparisons of text) order it
\* by, and in utc_offset the offset the text ends in, 0 for "Z".
Rec(src, cat, ext, url, title, summary, pub, conf, loc, ctry, sev) ==
    [source_id |-> src, category |-> cat, external_id |-> ext, url |-> url,
     title |-> title, summary |-> summary, published_at |-> pub, utc_offset |-> 0,
     location_confidence |-> conf, loc |-> loc, geom |-> None, ctry |-> ctry,
     severity |-> sev, simhash |-> simhash64(title \o summary)]

\* The centroid of Japan in the places table, 36 N 138 E.
JP == <<72, 276>>

\* find_country_centroid(db, name), geo/gazetteer.py: the places table of the
\* model knows one country.
find_country_centroid(name) == IF name = "JP" THEN Some(JP) ELSE None

DaySeconds == 86400

\* The records upstream feeds serve, by name.
RecordPool ==
    [r1 |-> Rec("s1", "news", Some("x1"), "u1", <<"quake", "tokyo">>, <<"strong">>, 0, "C_country", None, "JP", 40),
     r2 |-> Rec("s1", "news", Some("x1"), "u2", <<"quake", "osaka">>, <<>>, 0, "U_unknown", None, "none", 40),
     r3 |-> Rec("s1", "earthquake", None, "u3", <<"quake", "tokyo">>, <<"strong">>, 0, "A_exact", Some(<<71, 284>>), "none", 60),
     r4 |-> Rec("s2", "news", None, "u1", <<"flood", "alert">>, <<>>, 0, "C_country", None, "unknown", 40),
     r5 |-> Rec("s2", "earthquake", None, "u5", <<"quake", "tokyo">>, <<"strong">>, 0 - 2 * DaySeconds, "U_unknown", None, "none", 60),
     r6 |-> Rec("s2", "earthquake", None, "u6", <<"quake", "tokyo">>, <<"strong">>, 0, "U_unknown", None, "none", 80),
     r8 |-> Rec("s2", "news", None, "u8", <<"storm", "coast">>, <<>>, 0, "C_country", None, "unknown", 40)]

\* The records plugin.normalize raises on (line 1302), such as a USGS feature
\* whose geometry is null: normalize_usgs_earthquake raises TypeError
\* (normalize/normalize.py:72-73).
Malformed == {"r0"}

\* The deduplication without the hash_title query of lines 1437-1448.
IsDuplicate_noTitleQuery(db, item, title_cutoff) ==
    /\ item.category = "news" /\ ~IsNone(item.external_id)
    /\ \E i \in DOMAIN db.items :
            /\ db.items[i].source_id = item.source_id
            /\ db.items[i].external_id = item.external_id

\* The exists query of the deduplication (scheduler.py:1425-1450).
IsDuplicate(db, item, title_cutoff) ==
    IF item.category = "news" /\ ~IsNone(item.external_id)
    THEN \E i \in DOMAIN db.items :
            /\ db.items[i].source_id = item.source_id
            /\ db.items[i].external_id = item.external_id
    ELSE \E i \in DOMAIN db.items :
            /\ db.items[i].source_id = item.source_id
            /\ db.items[i].title = item.title
            /\ db.items[i].published_at >= title_cutoff

\* What makes INSERT INTO items raise sqlite3.IntegrityError: the primary
\* key, the unique indexes items_url_uq and items_source_external_uq (NULL
\* external_ids are distinct), the foreign key to sources (store/db.py:44-75).
ViolatesIntegrity_noUrlIndex(db, item) ==
    \/ item.item_id \in DOMAIN db.items
    \/ item.source_id \notin DOMAIN db.sources
    \/ \E i \in DOMAIN db.items :
          /\ ~IsNone(item.external_id)
          /\ db.items[i].source_id = item.source_id
          /\ db.items[i].external_id = item.external_id

ViolatesIntegrity(db, item) ==
    \/ item.item_id \in DOMAIN db.items
    \/ item.source_id \notin DOMAIN db.sources
    \/ \E i \in DOMAIN db.items :
          \/ db.items[i].url = item.url
          \/ /\ ~IsNone(item.external_id)
             /\ db.items[i].source_id = item.source_id
             /\ db.items[i].external_id = item.external_id

InsertRow(table, id, row) ==
    [i \in DOMAIN table \cup {id} |-> IF i = id THEN row ELSE table[i]]

\* The loop over the records (scheduler.py:1301-1472).  centroid is the local
\* variable of that name: None while unbound, Some(None) or Some(Some(place))
\* once line 1421 has assigned it.  Reading it unbound at line 1422 raises
\* UnboundLocalError.  The result names the exception, the connection's
\* database, the item_ids inserted and the next unused uuid: an exception
\* leaves the block without a rollback, the rows inserted before it stay in
\* the connection's open transaction.
RECURSIVE InsertLoop(_, _, _, _, _, _)
InsertLoop(db, recs, title_cutoff, centroid, inserted, uuid) ==
    IF recs = <<>>
    THEN [raised |-> "none", db |-> db, inserted |-> inserted, uuid |-> uuid]
    ELSE IF Head(recs) \in Malformed
    THEN [raised |-> "TypeError", db |-> db, inserted |-> inserted, uuid |-> uuid]
    ELSE
    LET rec == RecordPool[Head(recs)]
        country == rec.location_confidence = "C_country" /\ IsNone(rec.loc)
                   /\ rec.ctry # "none"
        centroid2 == IF country
                     THEN Some(find_country_centroid(rec.ctry))
                     ELSE centroid
    IN  IF IsNone(centroid2)
        THEN [raised |-> "UnboundLocalError", db |-> db, inserted |-> inserted,
              uuid |-> uuid]
        ELSE
        LET loc2 == IF IsNone(Get(centroid2)) THEN rec.loc ELSE Get(centroid2)
            item == [item_id |-> uuid, rec |-> Head(recs),
                     source_id |-> rec.source_id, category |-> rec.category,
                     external_id |-> rec.external_id, url |-> rec.url,
                     title |-> rec.title, summary |-> rec.summary,
                     published_at |-> rec.published_at,
                     utc_offset |-> rec.utc_offset,
                     location_confidence |-> rec.location_confidence,
                     loc |-> loc2, geom |-> rec.geom, severity |-> rec.severity,
                     simhash |-> rec.simhash]
        IN  IF IsDuplicate(db, item, title_cutoff) \/ ViolatesIntegrity(db, item)
            THEN InsertLoop(db, Tail(recs), title_cutoff, centroid2, inserted, uuid)
            ELSE InsertLoop([db EXCEPT !.items = InsertRow(db.items, uuid, item)],
                            Tail(recs), title_cutoff, centroid2,
                            Append(inserted, uuid), uuid + 1)

(***************************************************************************)
(* Clusterer (cluster/clusterer.py)                                        *)
(***************************************************************************)
\* _token_jaccard(a, b) >= num / den
JaccardAtLeast(a, b, num, den) ==
    /\ TokenSet(a) # {} /\ TokenSet(b) # {}
    /\ Cardinality(TokenSet(a) \cap TokenSet(b)) * den
          >= num * Cardinality(TokenSet(a) \cup TokenSet(b))

\* A value of the item's raw JSON: a number in hundredths, a string, null.
\* numeric says float(value) succeeds, isdigit what str.isdigit returns.
JsonNull == [type |-> "null", x100 |-> 0, s |-> "", numeric |-> FALSE, isdigit |-> FALSE]
JsonInt(n) == [type |-> "int", x100 |-> n * 100, s |-> "", numeric |-> TRUE, isdigit |-> FALSE]
JsonFloat(x100) == [type |-> "float", x100 |-> x100, s |-> "", numeric |-> TRUE, isdigit |-> FALSE]
JsonStr(str) == [type |-> "str", x100 |-> 0, s |-> str, numeric |-> FALSE, isdigit |-> FALSE]
JsonDigits(n) == [type |-> "str", x100 |-> n * 100, s |-> "digits", numeric |-> TRUE, isdigit |-> TRUE]

NoRaw == [k \in {} |-> JsonNull]
Raw(key, value) == [k \in {key} |-> value]

\* raw.get(key)
RawGet(raw, key) == IF key \in DOMAIN raw THEN raw[key] ELSE JsonNull

\* round(n / d) for d > 0: to the nearest integer, a half to the even one.
RoundHalfEven(n, d) ==
    LET q == n \div d
        r == n % d
    IN  IF 2 * r < d THEN q
        ELSE IF 2 * r > d THEN q + 1
        ELSE IF q % 2 = 0 THEN q ELSE q + 1

\* The score without the clamp of line 187.
_severity_score_unclamped(category, raw) ==
    IF category = "earthquake" /\ RawGet(raw, "mag").type \in {"int", "float"}
    THEN RoundHalfEven((RawGet(raw, "mag").x100 - 300) * 20, 100)
    ELSE 40

\* _severity_score(category, raw), clusterer.py:183-247
_severity_score(category, raw) ==
    CASE category = "earthquake" ->
            LET mag == RawGet(raw, "mag")
            IN  IF mag.type \in {"int", "float"}
                THEN Max(0, Min(100, RoundHalfEven((mag.x100 - 300) * 20, 100)))
                ELSE 40
      [] category = "weather_alert" ->
            LET severity == RawGet(raw, "severity")
            IN  CASE severity = JsonStr("Extreme") -> 95
                  [] severity = JsonStr("Severe") -> 80
                  [] severity = JsonStr("Moderate") -> 55
                  [] severity = JsonStr("Minor") -> 35
                  [] OTHER -> 50
      [] category = "tropical_cyclone" -> 75
      [] category = "travel_advisory" ->
            LET level == RawGet(raw, "advice_level")
            IN  CASE level = JsonStr("do_not_travel") -> 85
                  [] level = JsonStr("reconsider_your_need_to_travel") -> 65
                  [] OTHER -> 50
      [] category = "tsunami" -> 90
      [] category = "volcano" ->
            LET sev == RawGet(raw, "severity_level_1_5")
            IN  IF sev.type = "int" \/ (sev.type = "str" /\ sev.isdigit)
                THEN Max(0, Min(100, (sev.x100 \div 100) * 20))
                ELSE 70
      [] category = "wildfire" ->
            LET frp == RawGet(raw, "frp")
            IN  IF frp.type # "null" /\ frp.numeric
                THEN Max(0, Min(100, RoundHalfEven(frp.x100 * 3, 100)))
                ELSE 55
      [] category = "aviation_disruption" ->
            LET kind == RawGet(raw, "severity_kind")
                avg == RawGet(raw, "avg_delay_min")
            IN  CASE kind = JsonStr("closure") -> 90
                  [] kind = JsonStr("ground_stop") -> 80
                  [] kind = JsonStr("gdp") -> 65
                  [] OTHER -> IF avg.type = "int"
                              THEN Max(40, Min(80, avg.x100 \div 100)) ELSE 50
      [] category = "health_advisory" -> 55
      [] category = "cyber_kev" -> 75
      [] category = "cyber_cve" -> 60
      [] category = "disaster" -> 60
      [] OTHER -> 40

_location_rank(conf) ==
    CASE conf = "A_exact" -> 30
      [] conf \in {"B_coords_in_text", "B_place_match"} -> 20
      [] conf \in {"C_country", "C_source_default"} -> 10
      [] OTHER -> 0

\* A geometry of geom_geojson: its type and the <<lon, lat>> pairs of its
\* coordinates.
Geometry(type, points) == [type |-> type, points |-> points]

\* _bbox_from_geojson, clusterer.py:139-175: <<min_lon, min_lat, max_lon,
\* max_lat>> of the coordinates, None for a type it does not know and for a
\* geometry without points.
_bbox_from_geojson(geom) ==
    IF geom.type \notin {"Point", "Polygon", "MultiPolygon", "LineString", "MultiLineString"}
       \/ geom.points = {}
    THEN None
    ELSE LET lons == {q[1] : q \in geom.points}
             lats == {q[2] : q \in geom.points}
         IN  Some(<<CHOOSE x \in lons : \A y \in lons : x <= y,
                    CHOOSE x \in lats : \A y \in lats : x <= y,
                    CHOOSE x \in lons : \A y \in lons : x >= y,
                    CHOOSE x \in lats : \A y \in lats : x >= y>>)

\* _centroid_from_bbox, clusterer.py:178-180: <<lat, lon>>.  The extents of
\* the model are even numbers of half degrees, so the halves are exact.
_centroid_from_bbox(bbox) == <<(bbox[2] + bbox[4]) \div 2, (bbox[1] + bbox[3]) \div 2>>

\* The bbox of an item: lines 348-351.
ItemBbox(item) == IF IsNone(item.geom) THEN None ELSE _bbox_from_geojson(Get(item.geom))

\* The element-wise extent of lines 471-476.
MergedBbox(current, item_bbox) ==
    <<Min(current[1], item_bbox[1]), Min(current[2], item_bbox[2]),
      Max(current[3], item_bbox[3]), Max(current[4], item_bbox[4])>>

\* The promotion test of line 459 with "differs" in place of "is higher".
Promotes_onAnyOtherRank(item_conf, incident_conf) ==
    _location_rank(item_conf) # _location_rank(incident_conf)

\* The promotion test of line 459.
Promotes(item_conf, incident_conf) ==
    _location_rank(item_conf) > _location_rank(incident_conf)

\* _haversine_km, clusterer.py:126-136, rounded up to whole km, between two
\* <<lat, lon>> of the grid the model's geometries lie on (latitudes 0 to 1 N,
\* longitudes 0 to 2 E, in half degrees); by rows of latitude difference and
\* columns of longitude difference.  Any other pair of the model is Japan's
\* centroid and a point of the grid, more than 13 000 km apart.
HaversineKm ==
    <<<<0, 56, 112, 167, 223>>, <<56, 79, 125, 176, 230>>, <<112, 125, 158, 201, 249>>>>

PlaceKm(a, b) ==
    LET dlat == IF a[1] >= b[1] THEN a[1] - b[1] ELSE b[1] - a[1]
        dlon == IF a[2] >= b[2] THEN a[2] - b[2] ELSE b[2] - a[2]
    IN  IF a = b THEN 0
        ELSE IF dlat <= 2 /\ dlon <= 4 /\ a[1] <= 2 /\ b[1] <= 2
        THEN HaversineKm[dlat + 1][dlon + 1] ELSE 13000

_incident_summary_from_item(category, item_title, item_summary) ==
    IF category \in {"earthquake", "tropical_cyclone", "travel_advisory", "cyber_cve", "cyber_kev"}
    THEN item_title
    ELSE IF item_summary # <<>> THEN item_summary ELSE item_title

\* match_dist, match_dist_loose, jaccard_min (as a fraction) of a category
MatchLimits(category) ==
    CASE category = "news" -> [tight |-> 4, loose |-> 10, num |-> 3, den |-> 5]
      [] category \in {"earthquake", "volcano", "tsunami"} -> [tight |-> 8, loose |-> 14, num |-> 2, den |-> 5]
      [] OTHER -> [tight |-> 6, loose |-> 12, num |-> 9, den |-> 20]

\* The limits with a lookback of 96 hours where the code has 72.
MergeLimits_lookback96(category) ==
    CASE category = "news" -> [km |-> 40, dist |-> 2, hours |-> 24]
      [] category \in {"earthquake", "volcano"} -> [km |-> 120, dist |-> 4, hours |-> 96]
      [] category = "wildfire" -> [km |-> 50, dist |-> 3, hours |-> 48]
      [] category = "tsunami" -> [km |-> 2500, dist |-> 4, hours |-> 96]
      [] category = "aviation_disruption" -> [km |-> 30, dist |-> 3, hours |-> 24]
      [] category = "weather_alert" -> [km |-> 120, dist |-> 3, hours |-> 48]
      [] category = "tropical_cyclone" -> [km |-> 500, dist |-> 3, hours |-> 96]
      [] OTHER -> [km |-> 150, dist |-> 3, hours |-> 48]

\* max_km, max_dist, lookback_hours of _maybe_merge_incidents
MergeLimits(category) ==
    CASE category = "news" -> [km |-> 40, dist |-> 2, hours |-> 24]
      [] category \in {"earthquake", "volcano"} -> [km |-> 120, dist |-> 4, hours |-> 72]
      [] category = "wildfire" -> [km |-> 50, dist |-> 3, hours |-> 48]
      [] category = "tsunami" -> [km |-> 2500, dist |-> 4, hours |-> 72]
      [] category = "aviation_disruption" -> [km |-> 30, dist |-> 3, hours |-> 24]
      [] category = "weather_alert" -> [km |-> 120, dist |-> 3, hours |-> 48]
      [] category = "tropical_cyclone" -> [km |-> 500, dist |-> 3, hours |-> 72]
      [] OTHER -> [km |-> 150, dist |-> 3, hours |-> 48]

\* COUNT(*) and COUNT(DISTINCT source_id) of the join of incident_items with
\* items for one incident.
LinkedItems(db, incident_id) ==
    {l[2] : l \in {k \in db.links : k[1] = incident_id /\ k[2] \in DOMAIN db.items}}

\* The recount with COUNT(source_id) in the place of COUNT(DISTINCT source_id).
Recount_noDistinct(db, incident_id) ==
    IF incident_id \in DOMAIN db.incidents
    THEN [db EXCEPT !.incidents[incident_id].item_count =
                        Cardinality({l \in db.links : l[1] = incident_id}),
                    !.incidents[incident_id].source_count =
                        Cardinality({l \in db.links : l[1] = incident_id})]
    ELSE db

Recount(db, incident_id) ==
    IF incident_id \in DOMAIN db.incidents
    THEN [db EXCEPT !.incidents[incident_id].item_count =
                        Cardinality(LinkedItems(db, incident_id)),
                    !.incidents[incident_id].source_count =
                        Cardinality({db.items[i].source_id : i \in LinkedItems(db, incident_id)})]
    ELSE db

\* The DELETE without the ON DELETE CASCADE of incident_items.
DeleteIncidents_noCascade(db, ids) ==
    [db EXCEPT !.incidents = [i \in DOMAIN db.incidents \ ids |-> db.incidents[i]]]

\* DELETE FROM incidents WHERE incident_id = ?, with the ON DELETE CASCADE of
\* incident_items.
DeleteIncidents(db, ids) ==
    [db EXCEPT !.incidents = [i \in DOMAIN db.incidents \ ids |-> db.incidents[i]],
               !.links = {l \in db.links : l[1] \notin ids}]

\* The incidents _maybe_merge_incidents absorbs into incident_id.
MergeTargets(db, incident_id, t) ==
    IF incident_id \notin DOMAIN db.incidents THEN {}
    ELSE LET inc == db.incidents[incident_id]
             lim == MergeLimits(inc.category)
         IN  IF IsNone(inc.loc) THEN {}
             ELSE {o \in DOMAIN db.incidents \ {incident_id} :
                     /\ db.incidents[o].category = inc.category
                     /\ db.incidents[o].last_seen_at >= t - lim.hours * 3600
                     /\ Bucket(db.incidents[o].incident_simhash) = Bucket(inc.incident_simhash)
                     /\ ~IsNone(db.incidents[o].loc)
                     /\ PlaceKm(Get(inc.loc), Get(db.incidents[o].loc)) <= lim.km
                     /\ hamming_distance(inc.incident_simhash, db.incidents[o].incident_simhash) <= lim.dist}

\* The merge without the INSERT OR IGNORE of lines 640-647: the links of an
\* absorbed incident go with it.
_maybe_merge_incidents_noReparent(db, incident_id, t) ==
    LET others == MergeTargets(db, incident_id, t)
    IN  IF others = {} THEN db
        ELSE Recount(DeleteIncidents(db, others), incident_id)

_maybe_merge_incidents(db, incident_id, t) ==
    LET others == MergeTargets(db, incident_id, t)
        moved == {<<incident_id, l[2]>> : l \in {k \in db.links : k[1] \in others}}
    IN  IF others = {} THEN db
        ELSE Recount(DeleteIncidents([db EXCEPT !.links = db.links \cup moved], others),
                     incident_id)

\* normalize_*: simhash64(f"{title} {summary[:280]}")
ItemSimhash(item) == item.simhash

\* The candidates query of assign_item_to_incident (clusterer.py:298-309);
\* its LIMIT 200 is above the number of incidents of any state of the model.
CandidateIncidents(db, item, t) ==
    LET lookback_hours == IF item.category = "news" THEN 24 ELSE 48
    IN  {i \in DOMAIN db.incidents :
            /\ db.incidents[i].category = item.category
            /\ db.incidents[i].last_seen_at >= t - lookback_hours * 3600
            /\ Bucket(db.incidents[i].incident_simhash) = Bucket(ItemSimhash(item))}

\* The loop of lines 311-319 keeps the first candidate of the smallest
\* distance; the rows come ORDER BY last_seen_at DESC, rows of equal
\* last_seen_at in an order SQLite does not promise.  The set of the incidents
\* the loop can end with.
BestIncidents(db, item, t) ==
    LET cands == CandidateIncidents(db, item, t)
        dist(i) == hamming_distance(ItemSimhash(item), db.incidents[i].incident_simhash)
    IN  {i \in cands : \A j \in cands :
            \/ dist(i) < dist(j)
            \/ dist(i) = dist(j) /\ db.incidents[i].last_seen_at >= db.incidents[j].last_seen_at}

\* The match of lines 334-343 without the Jaccard floor in the loose band.
Matches_noJaccard(db, item, best) ==
    /\ ~IsNone(best)
    /\ hamming_distance(ItemSimhash(item), db.incidents[Get(best)].incident_simhash)
          <= MatchLimits(item.category).loose

\* best: None when there is no candidate, else Some(incident_id).
Matches(db, item, best) ==
    /\ ~IsNone(best)
    /\ LET inc == db.incidents[Get(best)]
           d == hamming_distance(ItemSimhash(item), inc.incident_simhash)
           lim == MatchLimits(item.category)
       IN  \/ d <= lim.tight
           \/ /\ lim.tight < d /\ d <= lim.loose
              /\ JaccardAtLeast(item.title \o item.summary, inc.title \o inc.summary,
                                lim.num, lim.den)

\* The payload with the event_type of lines 541-558 for every result.
IncidentEvent_updatedOnly(type, incident_id, item_count, source_count, severity_score, t) ==
    [type |-> "incident.updated", incident_id |-> incident_id, item_count |-> item_count,
     source_count |-> source_count, severity_score |-> severity_score,
     last_seen_at |-> t]

\* The payload of an incident event, the fields the model keeps.
IncidentEvent(type, incident_id, item_count, source_count, severity_score, t) ==
    [type |-> type, incident_id |-> incident_id, item_count |-> item_count,
     source_count |-> source_count, severity_score |-> severity_score,
     last_seen_at |-> t]

\* assign_item_to_incident(db, item_id) at time t, the loop of lines 311-319
\* ending with best; uuid is what uuid.uuid4() returns.  The outcome carries
\* the event of the ClusterResult in ret.
assign_item_to_incident(c, d, t, item_id, best, uuid) ==
    IF item_id \notin DOMAIN c.items
    THEN Outcome("ValueError", c, d, None)
    ELSE
    LET item == c.items[item_id]
        summary == _incident_summary_from_item(item.category, item.title, item.summary)
    IN  IF ~Matches(c, item, best)
        THEN LET row == [title |-> item.title, summary |-> summary,
                         category |-> item.category, first_seen_at |-> t,
                         last_seen_at |-> t, last_item_at |-> item.published_at,
                         status |-> "active", severity_score |-> item.severity,
                         geom |-> item.geom,
                         loc |-> IF IsNone(ItemBbox(item)) THEN item.loc
                                 ELSE Some(_centroid_from_bbox(Get(ItemBbox(item)))),
                         bbox |-> ItemBbox(item),
                         location_confidence |-> item.location_confidence,
                         incident_simhash |-> ItemSimhash(item),
                         item_count |-> 1, source_count |-> 1]
                 c2 == [c EXCEPT !.incidents = InsertRow(c.incidents, uuid, row),
                                 !.links = c.links \cup {<<uuid, item_id>>}]
             IN  Outcome("none", c2, c2,
                         IncidentEvent("incident.created", uuid, 1, 1, item.severity, t))
        ELSE LET incident_id == Get(best)
                 incident == c.incidents[incident_id]
                 promote == Promotes(item.location_confidence, incident.location_confidence)
                 item_bbox == ItemBbox(item)
                 bbox_promoted == IF promote /\ ~IsNone(item_bbox)
                                  THEN item_bbox ELSE incident.bbox
                 loc_promoted == IF ~promote THEN incident.loc
                                 ELSE IF IsNone(item_bbox) THEN item.loc
                                 ELSE Some(_centroid_from_bbox(Get(item_bbox)))
                 merge_bbox == ~IsNone(item_bbox) /\ ~IsNone(bbox_promoted)
                 bbox_out == IF merge_bbox
                             THEN Some(MergedBbox(Get(bbox_promoted), Get(item_bbox)))
                             ELSE bbox_promoted
                 loc_out == IF merge_bbox
                            THEN Some(_centroid_from_bbox(Get(bbox_out))) ELSE loc_promoted
                 severity_out == Max(incident.severity_score, item.severity)
                 c1 == [c EXCEPT !.links = c.links \cup {<<incident_id, item_id>>},
                                 !.incidents[incident_id] =
                                    [incident EXCEPT
                                       !.summary = summary,
                                       !.last_seen_at = t,
                                       !.last_item_at = Max(incident.last_item_at, item.published_at),
                                       !.severity_score = severity_out,
                                       !.geom = IF promote THEN item.geom ELSE incident.geom,
                                       !.loc = loc_out,
                                       !.bbox = bbox_out,
                                       !.location_confidence =
                                          IF promote THEN item.location_confidence
                                          ELSE incident.location_confidence,
                                       !.incident_simhash = simhash64(incident.title \o summary)]]
                 c2 == Recount(c1, incident_id)
                 counts == c2.incidents[incident_id]
                 bonus == Min(20, counts.item_count \div 10)
                 severity_wf == IF item.category = "wildfire"
                                THEN Min(100, severity_out + bonus) ELSE severity_out
                 c3 == [c2 EXCEPT !.incidents[incident_id].severity_score = severity_wf]
                 c4 == _maybe_merge_incidents(c3, incident_id, t)
             IN  Outcome("none", c4, c4,
                         IncidentEvent("incident.updated", incident_id, counts.item_count,
                                       counts.source_count, severity_wf, t))

(***************************************************************************)
(* Retention (ingest/scheduler.py:1487-1532)                               *)
(***************************************************************************)
items_retention_days == 30
incidents_retention_days == 90

\* _run_retention at the time t; the first definition is the variant that
\* also cools an incident seen exactly 24 hours ago.
_run_retention_coolsAtCutoff(c, t) ==
    LET cooled == [i \in DOMAIN c.incidents |->
                     IF c.incidents[i].status = "active" /\ c.incidents[i].last_seen_at <= t - 24 * 3600
                     THEN [c.incidents[i] EXCEPT !.status = "cooling"] ELSE c.incidents[i]]
        resolved == [i \in DOMAIN cooled |->
                       IF cooled[i].status # "resolved" /\ cooled[i].last_seen_at < t - 72 * 3600
                       THEN [cooled[i] EXCEPT !.status = "resolved"] ELSE cooled[i]]
        kept == {l[2] : l \in {k \in c.links : k[1] \in DOMAIN resolved
                                 /\ resolved[k[1]].status \in {"active", "cooling"}}}
        gone == {i \in DOMAIN c.items :
                    /\ c.items[i].published_at < t - items_retention_days * DaySeconds
                    /\ i \notin kept}
        c1 == [c EXCEPT !.incidents = resolved,
                        !.items = [i \in DOMAIN c.items \ gone |-> c.items[i]],
                        !.links = {l \in c.links : l[2] \notin gone}]
        old == {i \in DOMAIN c1.incidents :
                    /\ c1.incidents[i].status = "resolved"
                    /\ c1.incidents[i].last_seen_at < t - incidents_retention_days * DaySeconds}
    IN  DeleteIncidents(c1, old)

_run_retention(c, t) ==
    LET cooled == [i \in DOMAIN c.incidents |->
                     IF c.incidents[i].status = "active" /\ c.incidents[i].last_seen_at < t - 24 * 3600
                     THEN [c.incidents[i] EXCEPT !.status = "cooling"] ELSE c.incidents[i]]
        resolved == [i \in DOMAIN cooled |->
                       IF cooled[i].status # "resolved" /\ cooled[i].last_seen_at < t - 72 * 3600
                       THEN [cooled[i] EXCEPT !.status = "resolved"] ELSE cooled[i]]
        kept == {l[2] : l \in {k \in c.links : k[1] \in DOMAIN resolved
                                 /\ resolved[k[1]].status \in {"active", "cooling"}}}
        gone == {i \in DOMAIN c.items :
                    /\ c.items[i].published_at < t - items_retention_days * DaySeconds
                    /\ i \notin kept}
        c1 == [c EXCEPT !.incidents = resolved,
                        !.items = [i \in DOMAIN c.items \ gone |-> c.items[i]],
                        !.links = {l \in c.links : l[2] \notin gone}]
        old == {i \in DOMAIN c1.incidents :
                    /\ c1.incidents[i].status = "resolved"
                    /\ c1.incidents[i].last_seen_at < t - incidents_retention_days * DaySeconds}
    IN  DeleteIncidents(c1, old)

(***************************************************************************)
(* Work unit: what _run_one does with the response (scheduler.py:1041-1480)*)
(***************************************************************************)
\* What the awaited fetch delivers: httpx.TimeoutException, or the tuple
\* (status_code, content, headers, elapsed_ms).  headers maps the header names
\* as the dict spells them to values; a Retry-After value is its number of
\* seconds when str.isdigit() holds for it.  parse is what plugin.parse does
\* with the content: "ok" when it returns the records named, "ValueError"
\* when it raises ValueError or json.JSONDecodeError (parse_geojson,
\* parse_json_records on malformed JSON), "ParseError" when it raises
\* xml.etree.ElementTree.ParseError, a SyntaxError (parse_xml_feed,
\* parse_cap_alerts, parse_atom_feed on malformed XML).
NoHeaders == [n \in {} |-> 0]
\* The validators of a response, under the names the headers map spells.
Validators(names, etag, last_modified) ==
    [n \in names |-> IF n \in {"ETag", "etag"} THEN etag ELSE last_modified]
RetryHeader(name, seconds) == [n \in {name} |-> [isdigit |-> TRUE, n |-> seconds]]
Timeout == [kind |-> "timeout", status |-> 0, headers |-> NoHeaders, parse |-> "none", records |-> <<>>]
\* The createSession request of a bluesky_* plugin timed out (lines 952-975):
\* the work unit ends before it fetches.
AuthTimeout == [kind |-> "auth_timeout", status |-> 0, headers |-> NoHeaders, parse |-> "none", records |-> <<>>]
Http(status, headers, parse, records) ==
    [kind |-> "http", status |-> status, headers |-> headers, parse |-> parse, records |-> records]

\* A Cache-Control value: max_age is the number the pattern max-age=(\d+)
\* finds in it, None when the pattern finds nothing.
CacheHeader(name, max_age) == [n \in {name} |-> [max_age |-> max_age]]

\* cache_control_max_age_seconds (ingest/fetch.py:11-17), on dict.get's result
cache_control_max_age_seconds(cache_control) ==
    IF IsNone(cache_control) THEN None ELSE Get(cache_control).max_age

\* dict.get
HeaderGet(headers, name) == IF name \in DOMAIN headers THEN Some(headers[name]) ELSE None

elapsed_ms == 7

\* f"http_{status_code}"
HttpErrorKind(status) ==
    CASE status = 500 -> "http_500" [] status = 404 -> "http_404" [] OTHER -> "http_other"

\* Event(type="source.health", data={...})
HealthEvent(source_id, status, backoff) ==
    [type |-> "source.health", source_id |-> source_id, status |-> status,
     backoff |-> backoff]

\* One published event as the model logs it: the event, the item whose
\* clustering produced it (0 for a health event), and whether the rows it
\* describes were the same in the committed database as on the connection
\* when bus.publish was called.
Published(event, item_id, c, d) ==
    [event |-> event, item_id |-> item_id,
     committed |->
        IF event.type = "source.health"
        THEN RowOf(c, event.source_id) = RowOf(d, event.source_id)
        ELSE /\ event.incident_id \in DOMAIN c.incidents
             /\ event.incident_id \in DOMAIN d.incidents
             /\ c.incidents[event.incident_id] = d.incidents[event.incident_id]
             /\ {l \in c.links : l[1] = event.incident_id}
                  = {l \in d.links : l[1] = event.incident_id}]

\* The result of the part of _run_one that follows the fetch, up to the commit
\* of line 1480: the exception raised, the databases, the events published,
\* the item_ids left to cluster, the next unused uuid.
UnitResult(raised, c, d, events, inserted, uuid) ==
    [raised |-> raised, conn |-> c, disk |-> d, events |-> events,
     inserted |-> inserted, uuid |-> uuid]

\* record_fetch_error followed by the publish of the health event.
ErrorPath(c, d, t, source_id, status_code, fetch_ms, error, uuid) ==
    LET r == record_fetch_error(c, d, t, source_id, status_code, fetch_ms, error)
    IN  IF r.raised # "none"
        THEN UnitResult(r.raised, r.conn, r.disk, {}, <<>>, uuid)
        ELSE UnitResult("none", r.conn, r.disk,
                        {Published(HealthEvent(source_id, status_code, Some(r.ret)), 0,
                                   r.conn, r.disk)},
                        <<>>, uuid)

\* The 429 branch (scheduler.py:1104-1140).
TooManyRequests(c, d, t, source_id, headers, uuid) ==
    LET r == record_fetch_error(c, d, t, source_id, Some(429), Some(elapsed_ms), "http_429")
        retry_after == HeaderGet(headers, "Retry-After")
        override == /\ ~IsNone(retry_after)
                    /\ Get(retry_after).isdigit
                    /\ Get(retry_after).n > r.ret
        c2 == IF override
              THEN UpdateSourceRow(r.conn, source_id,
                                   [next_fetch_at |-> Some(t + Get(retry_after).n)])
              ELSE r.conn
        d2 == IF override THEN c2 ELSE r.disk
        backoff == IF override THEN Get(retry_after).n ELSE r.ret
    IN  IF r.raised # "none"
        THEN UnitResult(r.raised, r.conn, r.disk, {}, <<>>, uuid)
        ELSE UnitResult("none", c2, d2,
                        {Published(HealthEvent(source_id, Some(429), Some(backoff)), 0, c2, d2)},
                        <<>>, uuid)

\* The 200 branch with parsed records (scheduler.py:1183-1480): the success
\* is recorded first, then the records are inserted under the store lock.  An
\* exception raised inside the lock leaves the statements executed so far
\* uncommitted on the connection.
\* What the 200 path returns, r being the outcome of record_fetch_success and
\* l that of the insertion loop.
IngestResult(r, l, uuid) ==
    IF r.raised # "none"
    THEN UnitResult(r.raised, r.conn, r.disk, {}, <<>>, uuid)
    ELSE IF l.raised # "none"
    THEN UnitResult(l.raised, l.db, r.disk, {}, <<>>, l.uuid)
    ELSE UnitResult("none", l.db, l.db, {}, l.inserted, l.uuid)

\* The insertion loop on the connection that record_fetch_success left.
IngestInsert(r, t, records, uuid) ==
    IngestResult(r, InsertLoop(r.conn, records, t - DaySeconds, None, <<>>, uuid), uuid)

Ingest(c, d, t, source_id, etag_out, last_modified_out, next_seconds, records, uuid) ==
    IngestInsert(record_fetch_success(c, d, t, source_id, 200, elapsed_ms, etag_out,
                                      last_modified_out, next_seconds),
                 t, records, uuid)

\* _run_one from the return of fetch to the commit of line 1480, for the
\* plugin source_id whose due row held etag, last_modified and
\* poll_interval_seconds.
HandleResponse(c, d, t, source_id, etag, last_modified, poll_interval_seconds, resp, uuid) ==
    LET etag_out == HeaderGet(resp.headers, "ETag")
        last_modified_out == HeaderGet(resp.headers, "Last-Modified")
        cache_age == cache_control_max_age_seconds(HeaderGet(resp.headers, "Cache-Control"))
        next_seconds == IF IsNone(cache_age) THEN poll_interval_seconds ELSE Get(cache_age)
    IN  CASE resp.kind = "timeout" ->
                ErrorPath(c, d, t, source_id, None, None, "timeout", uuid)
          [] resp.kind = "auth_timeout" ->
                ErrorPath(c, d, t, source_id, None, None, "bluesky_auth_timeout", uuid)
          [] resp.kind = "http" /\ resp.status = 304 ->
                LET r == record_fetch_success(c, d, t, source_id, 304, elapsed_ms,
                            IF IsNone(etag_out) THEN etag ELSE etag_out,
                            IF IsNone(last_modified_out) THEN last_modified ELSE last_modified_out,
                            next_seconds)
                IN  IF r.raised # "none"
                    THEN UnitResult(r.raised, r.conn, r.disk, {}, <<>>, uuid)
                    ELSE UnitResult("none", r.conn, r.disk,
                                    {Published(HealthEvent(source_id, Some(304), None), 0,
                                               r.conn, r.disk)},
                                    <<>>, uuid)
          [] resp.kind = "http" /\ resp.status = 429 ->
                TooManyRequests(c, d, t, source_id, resp.headers, uuid)
          [] resp.kind = "http" /\ resp.status \notin {200, 304, 429} ->
                ErrorPath(c, d, t, source_id, Some(resp.status), Some(elapsed_ms),
                          HttpErrorKind(resp.status), uuid)
          [] resp.kind = "http" /\ resp.status = 200 /\ resp.parse = "ValueError" ->
                ErrorPath(c, d, t, source_id, Some(200), Some(elapsed_ms), "parse_error", uuid)
          [] resp.kind = "http" /\ resp.status = 200 /\ resp.parse # "ok" ->
                UnitResult(resp.parse, c, d, {}, <<>>, uuid)
          [] OTHER ->
                Ingest(c, d, t, source_id, etag_out, last_modified_out, next_seconds,
                       resp.records, uuid)

(***************************************************************************)
(* realtime/bus.py: the event bus.  A queue is the sequence of the events  *)
(* in it, oldest first; an event is the number of the publish call that    *)
(* brought it.  subscribe, unsubscribe and publish hold the lock over      *)
(* statements without an await and the lock is free whenever one of them   *)
(* starts, so none of them is suspended: each is one step.                 *)
(***************************************************************************)
\* asyncio.Queue(maxsize=200)
maxsize_201 == 200 + 1
maxsize == 200

QueueIds == {"q1", "q2", "q3"}

QueueResult(raised, queue, ret) == [raised |-> raised, queue |-> queue, ret |-> ret]

\* asyncio.Queue.put_nowait
put_nowait(queue, event) ==
    IF Len(queue) >= maxsize THEN QueueResult("QueueFull", queue, None)
    ELSE QueueResult("none", Append(queue, event), None)

\* asyncio.Queue.get_nowait: the queue is a deque read with popleft.
get_nowait_newest(queue) ==
    IF queue = <<>> THEN QueueResult("QueueEmpty", queue, None)
    ELSE QueueResult("none", SubSeq(queue, 1, Len(queue) - 1), Some(queue[Len(queue)]))

get_nowait(queue) ==
    IF queue = <<>> THEN QueueResult("QueueEmpty", queue, None)
    ELSE QueueResult("none", Tail(queue), Some(Head(queue)))

\* Lines 31-36 for one queue.
Enqueue(queue, event) ==
    LET first == put_nowait(queue, event)
    IN  IF first.raised = "none" THEN first
        ELSE LET oldest == get_nowait(queue)
             IN  IF oldest.raised # "none" THEN oldest
                 ELSE put_nowait(oldest.queue, event)

EmptyBus == [subscribers |-> {}, queues |-> [q \in QueueIds |-> <<>>]]

\* EventBus.subscribe, lines 18-22; q is the new queue object.
subscribe(b, q) ==
    [subscribers |-> b.subscribers \cup {q}, queues |-> [b.queues EXCEPT ![q] = <<>>]]

\* self._subscribers.discard(queue), line 26
discard_nothing(subscribers, q) == subscribers

discard(subscribers, q) == subscribers \ {q}

\* EventBus.unsubscribe, lines 24-26
unsubscribe(b, q) == [b EXCEPT !.subscribers = discard(b.subscribers, q)]

\* EventBus.publish, lines 28-36: the queues of the subscribers of line 30
\* after the loop, and the exception the loop ends with, if any.
publish(b, event) ==
    LET results == [q \in b.subscribers |-> Enqueue(b.queues[q], event)]
        failed == {q \in b.subscribers : results[q].raised # "none"}
    IN  [raised |-> IF failed = {} THEN "none"
                    ELSE results[CHOOSE q \in failed : TRUE].raised,
         bus |-> [b EXCEPT !.queues =
                      [q \in QueueIds |-> IF q \in b.subscribers THEN results[q].queue
                                          ELSE b.queues[q]]]]

(***************************************************************************)
(* State                                                                   *)
(***************************************************************************)
VARIABLES
    now,        \* the clock, in seconds
    conn,       \* the database as the shared sqlite3 connection sees it
    disk,       \* the committed database
    call,       \* the last call made: its arguments and outcome
    sched,      \* run_scheduler: where it stands, next_cleanup_at
    sems,       \* global_sem and host_sems: the permits left
    units,      \* the _run_one task of each plugin
    published,  \* the events handed to bus.publish so far
    uuid,       \* the next value uuid.uuid4() returns
    bus,        \* the EventBus: its subscribers and their queues
    trace       \* what was published, and what each subscription was given

vars == <<now, conn, disk, call, sched, sems, units, published, uuid, bus, trace>>

NoCall == [op |-> "none"]

\* Nothing published, no subscription made.
NoTrace ==
    [n |-> 0, since |-> [q \in QueueIds |-> -1], until |-> [q \in QueueIds |-> -1],
     got |-> [q \in QueueIds |-> <<>>], publishes |-> 0, gets |-> 0]

\* datetime.now(tz=UTC) moves on.
Tick ==
    /\ now + TickSeconds <= MaxHours * 3600
    /\ now' = now + TickSeconds
    /\ UNCHANGED <<conn, disk, call, sched, sems, units, published, uuid, bus, trace>>

\* asyncio.Semaphore(4) of line 856, asyncio.Semaphore(1) of line 898
GlobalLimit_5 == 4 + 1
GlobalLimit == 4
HostLimit_2 == 1 + 1
HostLimit == 1
\* LIMIT 12 of the due query
DueLimit_13 == 12 + 1
DueLimit == 12

\* A plugin without a task.
NoUnit == [pc |-> "none", etag |-> None, last_modified |-> None, poll |-> 0, pending |-> <<>>]

\* The scheduler before run_scheduler is called.
SchedOff == [pc |-> "off", next_cleanup_at |-> 0]
NoSems == [global |-> GlobalLimit, hosts |-> [h \in {} |-> 0]]

(***************************************************************************)
(* SpecHealth: the health tracker called with arbitrary arguments          *)
(***************************************************************************)
HealthSources == {"s1", "s2", "s8"}
HealthCallIds == HealthSources \cup {"ghost"}
\* (status_code, etag = last_modified) of a success; (status_code, error) of an error
SuccessInputs == {<<200, Some("e1")>>, <<304, None>>}
ErrorInputs == {<<None, "timeout">>, <<Some(429), "http_429">>}
NextInValues == {0, 900}

CallsMade(db) ==
    IF "success_count" \in db.sources_cols
    THEN db.sources["s1"]["success_count"] + db.sources["s1"]["error_count"]
         + db.sources["s2"]["success_count"] + db.sources["s2"]["error_count"]
         + db.sources["s8"]["success_count"] + db.sources["s8"]["error_count"]
    ELSE 0

InitHealth ==
    /\ now = 0
    /\ \E cols \in SourcesSchemas :
          conn = ensure_sources(EmptyDb(cols), HealthSources, 0)
    /\ disk = conn
    /\ call = NoCall
    /\ sched = SchedOff
    /\ sems = NoSems
    /\ units = [p \in HealthSources |-> NoUnit]
    /\ published = {}
    /\ uuid = 1
    /\ bus = EmptyBus
    /\ trace = NoTrace

CallSuccess(s, status_code, etag, last_modified, next_in) ==
    LET r == record_fetch_success(conn, disk, now, s, status_code, 7, etag,
                                  last_modified, next_in)
    IN  /\ CallsMade(conn) < MaxCalls
        /\ conn' = r.conn
        /\ disk' = r.disk
        /\ call' = [op |-> "success", source_id |-> s, t |-> now,
                    pre |-> RowOf(conn, s), raised |-> r.raised, ret |-> r.ret,
                    status_code |-> Some(status_code), etag |-> etag,
                    last_modified |-> last_modified, next_in |-> next_in,
                    error |-> ""]
        /\ UNCHANGED <<now, sched, sems, units, published, uuid, bus, trace>>

CallError(s, status_code, error) ==
    LET r == record_fetch_error(conn, disk, now, s, status_code,
                                IF IsNone(status_code) THEN None ELSE Some(7),
                                error)
    IN  /\ CallsMade(conn) < MaxCalls
        /\ conn' = r.conn
        /\ disk' = r.disk
        /\ call' = [op |-> "error", source_id |-> s, t |-> now,
                    pre |-> RowOf(conn, s), raised |-> r.raised, ret |-> r.ret,
                    status_code |-> status_code, etag |-> None,
                    last_modified |-> None, next_in |-> 0, error |-> error]
        /\ UNCHANGED <<now, sched, sems, units, published, uuid, bus, trace>>

NextHealth ==
    \/ Tick
    \/ \E s \in HealthCallIds, i \in SuccessInputs, n \in NextInValues :
          CallSuccess(s, i[1], i[2], i[2], n)
    \/ \E s \in HealthCallIds, i \in ErrorInputs : CallError(s, i[1], i[2])

SpecHealth == InitHealth /\ [][NextHealth]_vars

(***************************************************************************)
(* Scheduler and work units (ingest/scheduler.py:845-1484)                 *)
(*                                                                         *)
(* One action per stretch of code between two awaits that suspend: the     *)
(* semaphore acquisitions and the fetch.  bus.publish takes an uncontended *)
(* asyncio.Lock and never suspends, so what follows the fetch runs without *)
(* another task in between; the store lock is released between the commit  *)
(* of line 1480 and every assign_item_to_incident, which is where the      *)
(* threads serving the API can read the database, so each of these is an   *)
(* action of its own and only the clock moves between them.                *)
(***************************************************************************)
\* What the upstream of a plugin can answer.
Responses(p) ==
    CASE p = "s1" ->
            {Timeout,
             Http(429, RetryHeader("Retry-After", 4000), "none", <<>>),
             Http(429, RetryHeader("retry-after", 4000), "none", <<>>),
             Http(429, RetryHeader("Retry-After", 120), "none", <<>>),
             Http(200, NoHeaders, "ok", <<"r1", "r2", "r3">>),
             Http(200, NoHeaders, "ok", <<"r3">>),
             Http(200, NoHeaders, "ParseError", <<>>)}
      [] p = "s2" ->
            {AuthTimeout,
             Http(304, NoHeaders, "none", <<>>),
             Http(304, CacheHeader("Cache-Control", Some(60)), "none", <<>>),
             Http(304, CacheHeader("cache-control", Some(60)), "none", <<>>),
             Http(304, CacheHeader("Cache-Control", Some(0)), "none", <<>>),
             Http(500, NoHeaders, "none", <<>>),
             Http(200, NoHeaders, "ValueError", <<>>),
             Http(200, NoHeaders, "ok", <<"r4", "r5", "r6">>),
             Http(200, NoHeaders, "ok", <<"r8", "r0">>),
             Http(200, Validators({"ETag", "Last-Modified"}, "e1", "m1"), "ok", <<>>),
             Http(200, Validators({"etag", "last-modified"}, "e1", "m1"), "ok", <<>>)}
      [] p = "s3" -> {Timeout, Http(304, NoHeaders, "none", <<>>)}
      [] OTHER -> {Timeout}

\* run_scheduler up to the first pass of its loop, with the plugins P.
InitWith(P) ==
    /\ now = 0
    /\ \E cols \in SourcesSchemas : conn = ensure_sources(EmptyDb(cols), P, 0)
    /\ disk = conn
    /\ call = NoCall
    /\ sched = [pc |-> "idle", next_cleanup_at |-> 10 * 60]
    /\ sems = NoSems
    /\ units = [p \in P |-> NoUnit]
    /\ published = {}
    /\ uuid = 1
    /\ bus = EmptyBus
    /\ trace = NoTrace

\* The due query (scheduler.py:875-887).
Due(db, t) ==
    IF db.polling = Some("0") THEN {}
    ELSE {s \in DOMAIN db.sources :
            /\ db.sources[s]["enabled"] = 1
            /\ \/ IsNone(db.sources[s]["next_fetch_at"])
               \/ Get(db.sources[s]["next_fetch_at"]) <= t}

\* ORDER BY COALESCE(next_fetch_at, '') ASC: a sorts no later than b; the
\* empty string sorts before every timestamp.
DueOrder(db, a, b) ==
    \/ IsNone(db.sources[a]["next_fetch_at"])
    \/ /\ ~IsNone(db.sources[b]["next_fetch_at"])
       /\ Get(db.sources[a]["next_fetch_at"]) <= Get(db.sources[b]["next_fetch_at"])

\* The subsets of S with n elements.
RECURSIVE KSubsets(_, _)
KSubsets(S, n) ==
    IF n = 0 THEN {{}}
    ELSE UNION {{T \cup {x} : T \in KSubsets(S \ {x}, n - 1)} : x \in S}

\* The sets of rows ORDER BY ... LIMIT 12 can return: every row that sorts
\* strictly before the last row returned, and any choice among the rows that
\* sort with it.
DuePicks(db, t) ==
    LET due == Due(db, t)
        Before(s) == {r \in due : ~DueOrder(db, s, r)}
        Tied(s) == {r \in due : DueOrder(db, s, r) /\ DueOrder(db, r, s)}
    IN  IF Cardinality(due) <= DueLimit THEN {due}
        ELSE UNION {
                LET need == DueLimit - Cardinality(Before(s))
                    drop == Cardinality(Tied(s)) - need
                IN  IF drop <= need
                    THEN {Before(s) \cup (Tied(s) \ D) : D \in KSubsets(Tied(s), drop)}
                    ELSE {Before(s) \cup K : K \in KSubsets(Tied(s), need)} :
                s \in {r \in due : /\ Cardinality(Before(r)) < DueLimit
                                  /\ Cardinality(Before(r)) + Cardinality(Tied(r)) >= DueLimit}}

NoCluster == \A p \in DOMAIN units : units[p].pc # "cluster"

\* Lines 921-923: retention when the clock has reached next_cleanup_at; the
\* scheduler then stands at pc.
CleanupCheck(pc) ==
    IF now >= sched.next_cleanup_at
    THEN /\ conn' = _run_retention(conn, now)
         /\ disk' = conn'
         /\ sched' = [pc |-> pc, next_cleanup_at |-> now + 3600]
    ELSE /\ UNCHANGED <<conn, disk>>
         /\ sched' = [sched EXCEPT !.pc = pc]

\* What one pass of the due query saw and the sources it created tasks for.
Selection(tasks) ==
    [op |-> "select", t |-> now, sources |-> conn.sources, polling |-> conn.polling,
     spawned |-> tasks]

\* The top of the loop: the due query, then either the sleep or one task per
\* due source that has a plugin (setdefault creates a host's semaphore) and
\* the gather.
SchedSelect ==
    /\ sched.pc = "idle"
    /\ \E S \in DuePicks(conn, now) :
         LET tasks == S \cap DOMAIN units
             hosts == {plugin_host[p] : p \in tasks}
         IN  IF tasks = {}
             THEN /\ sched' = [sched EXCEPT !.pc = "sleep"]
                  /\ call' = Selection({})
                  /\ UNCHANGED <<units, sems>>
             ELSE /\ sched' = [sched EXCEPT !.pc = "gather"]
                  /\ call' = Selection(tasks)
                  /\ units' = [p \in DOMAIN units |->
                                 IF p \in tasks
                                 THEN [pc |-> "wait_global",
                                       etag |-> conn.sources[p]["etag"],
                                       last_modified |-> conn.sources[p]["last_modified"],
                                       poll |-> conn.sources[p]["poll_interval_seconds"],
                                       pending |-> <<>>]
                                 ELSE units[p]]
                  /\ sems' = [sems EXCEPT !.hosts =
                                [h \in DOMAIN sems.hosts \cup hosts |->
                                    IF h \in DOMAIN sems.hosts THEN sems.hosts[h]
                                    ELSE HostLimit]]
    /\ UNCHANGED <<now, conn, disk, published, uuid, bus, trace>>

\* asyncio.sleep(0.5) returns.
SchedWake ==
    /\ sched.pc = "sleep"
    /\ CleanupCheck("idle")
    /\ UNCHANGED <<now, call, sems, units, published, uuid, bus, trace>>

\* asyncio.gather returns: every task of the cycle has returned.
GatherReturn ==
    /\ sched.pc = "gather"
    /\ \A p \in DOMAIN units : units[p].pc \in {"none", "done"}
    /\ CleanupCheck("idle")
    /\ units' = [p \in DOMAIN units |-> NoUnit]
    /\ UNCHANGED <<now, call, sems, published, uuid, bus, trace>>

\* asyncio.gather raises the exception of the first task that raised; nothing
\* in run_scheduler catches it, the coroutine ends.  The other tasks of the
\* cycle are not cancelled.
GatherRaise ==
    /\ sched.pc = "gather"
    /\ NoCluster
    /\ \E p \in DOMAIN units : units[p].pc = "raised"
    /\ sched' = [sched EXCEPT !.pc = "crashed"]
    /\ UNCHANGED <<now, conn, disk, call, sems, units, published, uuid, bus, trace>>

\* async with global_sem, host_sem: first the global permit, then the host's.
AcquireGlobal(p) ==
    /\ units[p].pc = "wait_global"
    /\ NoCluster
    /\ sems.global > 0
    /\ sems' = [sems EXCEPT !.global = @ - 1]
    /\ units' = [units EXCEPT ![p].pc = "wait_host"]
    /\ UNCHANGED <<now, conn, disk, call, sched, published, uuid, bus, trace>>

AcquireHost(p) ==
    /\ units[p].pc = "wait_host"
    /\ NoCluster
    /\ sems.hosts[plugin_host[p]] > 0
    /\ sems' = [sems EXCEPT !.hosts[plugin_host[p]] = @ - 1]
    /\ units' = [units EXCEPT ![p].pc = "fetching"]
    /\ UNCHANGED <<now, conn, disk, call, sched, published, uuid, bus, trace>>

\* Leaving the async with block, by return or by exception.
Release(p) == [sems EXCEPT !.global = @ + 1, !.hosts[plugin_host[p]] = @ + 1]

\* The fetch returns resp; _run_one runs to its return, to an exception or to
\* the commit of the inserted items.
\* Where the unit stands once its response is handled with the result r.
UnitPc(r) ==
    IF r.raised # "none" THEN "raised"
    ELSE IF r.inserted = <<>> THEN "done" ELSE "cluster"

\* The effect of the handled response, r being what HandleResponse returned.
UnitSettle(p, resp, r) ==
    /\ conn' = r.conn
    /\ disk' = r.disk
    /\ published' = published \cup r.events
    /\ uuid' = r.uuid
    /\ units' = [units EXCEPT ![p].pc = UnitPc(r), ![p].pending = r.inserted]
    /\ sems' = IF UnitPc(r) = "cluster" THEN sems ELSE Release(p)
    /\ call' = [op |-> "respond", source_id |-> p, t |-> now, resp |-> resp,
                pre |-> RowOf(conn, p), pre_items |-> conn.items,
                raised |-> r.raised, inserted |-> r.inserted,
                events |-> r.events, pc |-> UnitPc(r)]

\* The server sends "Cache-Control: max-age=0" to a source at most
\* MaxZeroAge times: each such answer makes the source due again at once, and
\* the bound keeps success_count finite.
MaxZeroAge == 1

ZeroAge(resp) ==
    /\ resp.kind = "http"
    /\ "Cache-Control" \in DOMAIN resp.headers
    /\ resp.headers["Cache-Control"].max_age = Some(0)

Served(p, resp) ==
    ZeroAge(resp) =>
        /\ "success_count" \in DOMAIN conn.sources[p]
        /\ conn.sources[p]["success_count"] < MaxZeroAge

UnitRespond(p, resp) ==
    /\ units[p].pc = "fetching"
    /\ NoCluster
    /\ Served(p, resp)
    /\ \E r \in {HandleResponse(conn, disk, now, p, units[p].etag, units[p].last_modified,
                                  units[p].poll, resp, uuid)} :
          UnitSettle(p, resp, r)
    /\ UNCHANGED <<now, sched, bus, trace>>

\* One pass of the loop of lines 1482-1484.
UnitCluster(p) ==
    /\ units[p].pc = "cluster"
    /\ LET item_id == Head(units[p].pending)
           bests == IF item_id \in DOMAIN conn.items
                    THEN BestIncidents(conn, conn.items[item_id], now) ELSE {}
       IN  \E best \in (IF bests = {} THEN {None} ELSE {Some(b) : b \in bests}) :
             LET r == assign_item_to_incident(conn, disk, now, item_id, best, uuid)
                 rest == Tail(units[p].pending)
                 pc == IF r.raised # "none" THEN "raised"
                       ELSE IF rest = <<>> THEN "done" ELSE "cluster"
             IN  /\ conn' = r.conn
                 /\ disk' = r.disk
                 /\ published' = IF r.raised # "none" THEN published
                                 ELSE published \cup {Published(r.ret, item_id, r.conn, r.disk)}
                 /\ uuid' = IF r.raised = "none" /\ r.ret.type = "incident.created"
                            THEN uuid + 1 ELSE uuid
                 /\ units' = [units EXCEPT ![p].pc = pc, ![p].pending = rest]
                 /\ sems' = IF pc = "cluster" THEN sems ELSE Release(p)
                 /\ call' = [op |-> "cluster", source_id |-> p, t |-> now,
                             item_id |-> item_id, raised |-> r.raised]
    /\ UNCHANGED <<now, sched, bus, trace>>

\* Spec: two plugins on two hosts, every kind of response.
Init == InitWith({"s1", "s2"})

Next ==
    \/ Tick
    \/ SchedSelect
    \/ SchedWake
    \/ GatherReturn
    \/ GatherRaise
    \/ \E p \in DOMAIN units : AcquireGlobal(p)
    \/ \E p \in DOMAIN units : AcquireHost(p)
    \/ \E p \in DOMAIN units : \E resp \in Responses(p) : UnitRespond(p, resp)
    \/ \E p \in DOMAIN units : UnitCluster(p)

Spec == Init /\ [][Next]_vars

\* SpecSched: five plugins on four hosts, more due sources than permits.
InitSched == InitWith({"s3", "s4", "s5", "s6", "s7"})

NextSched ==
    \/ Tick
    \/ SchedSelect
    \/ SchedWake
    \/ GatherReturn
    \/ GatherRaise
    \/ \E p \in DOMAIN units : AcquireGlobal(p)
    \/ \E p \in DOMAIN units : AcquireHost(p)
    \/ \E p \in DOMAIN units : \E resp \in Responses(p) : UnitRespond(p, resp)

SpecSched == InitSched /\ [][NextSched]_vars

\* SpecSchedFair: SpecSched with the event loop running every task that can
\* run and every HTTP request coming to an end (the timeouts of fetch.py:40
\* end a request that gets no response).  asyncio runs every callback that is
\* ready and wakes the waiters of a semaphore in the order of their arrival,
\* so a step of the scheduler is taken when one stays possible, and a step of
\* some work unit is taken when one stays possible.  Time passes or not.
SchedStep == SchedSelect \/ SchedWake \/ GatherReturn \/ GatherRaise

UnitStep ==
    \E p \in DOMAIN units :
        \/ AcquireGlobal(p)
        \/ AcquireHost(p)
        \/ \E resp \in Responses(p) : UnitRespond(p, resp)

SchedFairness == WF_vars(SchedStep) /\ WF_vars(UnitStep)

SpecSchedFair == InitSched /\ [][NextSched]_vars /\ SchedFairness

\* POST /settings (app/main.py:904-979): the form's polling_enabled checkbox
\* is stored in app_config and committed.  The registry of the model has no
\* feed-pack entry, so no source row is touched.
post_settings(polling_enabled) ==
    /\ conn' = [conn EXCEPT !.polling = Some(IF polling_enabled THEN "1" ELSE "0")]
    /\ disk' = conn'
    /\ UNCHANGED <<now, call, sched, sems, units, published, uuid, bus, trace>>

\* SpecDue: the due query on the database of an earlier run.  The thirteen
\* sources d1 .. d13 are in the table already (ensure_sources ignores them):
\* the first `due` of them have a next_fetch_at that has passed, all the same
\* or one older than the other, the rest one that has not; the sources of
\* `off` are disabled; app_config holds polling_enabled or not.
DueCounts == 0..13
OffSets == {{}, {"d1"}, {"d2", "d5"}}
PollingValues == {None, Some("0"), Some("1")}
LaterSeconds == 3000

DueRows(cols, due, staggered, off) ==
    [p \in DuePlugins |->
        [NewSourceRow(cols, p, 0) EXCEPT
            !["next_fetch_at"] =
                IF DueRank[p] > due THEN Some(LaterSeconds)
                ELSE IF staggered THEN Some(0 - 100 * DueRank[p]) ELSE Some(0),
            !["enabled"] = IF p \in off THEN 0 ELSE 1]]

InitDue ==
    /\ now = 0
    /\ \E cols \in SourcesSchemas, due \in DueCounts, staggered \in BOOLEAN,
          off \in OffSets, polling \in PollingValues :
          conn = ensure_sources([EmptyDb(cols) EXCEPT
                                    !.sources = DueRows(cols, due, staggered, off),
                                    !.polling = polling],
                                DuePlugins, 0)
    /\ disk = conn
    /\ call = NoCall
    /\ sched = [pc |-> "idle", next_cleanup_at |-> 10 * 60]
    /\ sems = NoSems
    /\ units = [p \in DuePlugins |-> NoUnit]
    /\ published = {}
    /\ uuid = 1
    /\ bus = EmptyBus
    /\ trace = NoTrace

NextDue ==
    \/ Tick
    \/ SchedSelect
    \/ SchedWake
    \/ \E b \in BOOLEAN : post_settings(b)

SpecDue == InitDue /\ [][NextDue]_vars

\* SpecLive: the scheduler and its work units on a table that also holds
\* rows of an earlier run whose plugins are registered no more (ensure_sources
\* never deletes a row; the Mastodon plugins, for one, follow the settings).
\* The first `orphans` of d1 .. d12 are such rows, enabled and due longer
\* than the rows of the two registered plugins.
LivePlugins == {"d13", "s3"}
OrphanCounts == {0, 1, 11, 12}

OrphanRows(cols, orphans) ==
    [p \in {q \in DuePlugins : DueRank[q] <= orphans} |->
        [NewSourceRow(cols, p, 0) EXCEPT !["next_fetch_at"] = Some(0 - 100 * DueRank[p])]]

InitLive ==
    /\ now = 0
    /\ \E cols \in SourcesSchemas, orphans \in OrphanCounts :
          conn = ensure_sources([EmptyDb(cols) EXCEPT !.sources = OrphanRows(cols, orphans)],
                                LivePlugins, 0)
    /\ disk = conn
    /\ call = NoCall
    /\ sched = [pc |-> "idle", next_cleanup_at |-> 10 * 60]
    /\ sems = NoSems
    /\ units = [p \in LivePlugins |-> NoUnit]
    /\ published = {}
    /\ uuid = 1
    /\ bus = EmptyBus
    /\ trace = NoTrace

NextLive ==
    \/ Tick
    \/ SchedSelect
    \/ SchedWake
    \/ GatherReturn
    \/ GatherRaise
    \/ \E p \in DOMAIN units : AcquireGlobal(p)
    \/ \E p \in DOMAIN units : AcquireHost(p)
    \/ \E p \in DOMAIN units : \E resp \in Responses(p) : UnitRespond(p, resp)

\* The event loop runs every coroutine that can run: the scheduler does not
\* stop between two cycles, a work unit that can take its semaphores takes
\* them, and every fetch ends (httpx answers or times out).
LiveFairness ==
    /\ WF_vars(SchedSelect)
    /\ WF_vars(SchedWake)
    /\ WF_vars(GatherReturn)
    /\ WF_vars(GatherRaise)
    /\ \A p \in LivePlugins :
          /\ WF_vars(AcquireGlobal(p))
          /\ WF_vars(AcquireHost(p))
          /\ WF_vars(\E resp \in Responses(p) : UnitRespond(p, resp))

SpecLive == InitLive /\ [][NextLive]_vars /\ LiveFairness

\* SpecBus: the event bus with the SSE handlers as its subscribers and the
\* work units as its publishers.  It starts with one SSE client connected
\* that has read nothing of a backlog of events, as a browser tab in the
\* background leaves it.
MaxPublishes == 3
MaxGets == 2
Backlogs == {0, 199}

\* The bus after the events from + 1 .. to were published to b.
RECURSIVE Backlog(_, _, _)
Backlog(b, from, to) ==
    IF from >= to THEN b
    ELSE IF to = from + 1 THEN publish(b, to).bus
    ELSE LET mid == (from + to) \div 2
             half == Backlog(b, from, mid)
         IN  IF half.subscribers = {} THEN half ELSE Backlog(half, mid, to)

InitBus ==
    /\ now = 0
    /\ conn = EmptyDb(SourcesColumns)
    /\ disk = conn
    /\ call = NoCall
    /\ sched = SchedOff
    /\ sems = NoSems
    /\ units = [p \in {} |-> NoUnit]
    /\ published = {}
    /\ uuid = 1
    /\ \E backlog \in Backlogs :
          /\ bus = Backlog(subscribe(EmptyBus, "q1"), 0, backlog)
          /\ trace = [NoTrace EXCEPT !.n = backlog, !.since["q1"] = 0]

\* GET /sse, realtime/sse.py:19: a client connects and gets a new queue.
SseSubscribe ==
    /\ \E q \in QueueIds : trace.since[q] = -1
    /\ LET q == IF trace.since["q2"] = -1 THEN "q2" ELSE "q3"
       IN  /\ bus' = subscribe(bus, q)
           /\ trace' = [trace EXCEPT !.since[q] = trace.n]
           /\ call' = [op |-> "subscribe", queue |-> q]
    /\ UNCHANGED <<now, conn, disk, sched, sems, units, published, uuid>>

\* realtime/sse.py:28: the handler of a connected client takes the next event.
SseGet(q) ==
    /\ trace.since[q] # -1
    /\ trace.until[q] = -1
    /\ trace.gets < MaxGets
    /\ bus.queues[q] # <<>>
    /\ LET r == get_nowait(bus.queues[q])
       IN  /\ bus' = [bus EXCEPT !.queues[q] = r.queue]
           /\ trace' = [trace EXCEPT !.got[q] = Append(@, Get(r.ret)), !.gets = @ + 1]
           /\ call' = [op |-> "get", queue |-> q, event |-> Get(r.ret)]
    /\ UNCHANGED <<now, conn, disk, sched, sems, units, published, uuid>>

\* realtime/sse.py:25-26, 36-37: the client is gone and the handler unsubscribes.
SseUnsubscribe(q) ==
    /\ trace.since[q] # -1
    /\ trace.until[q] = -1
    /\ bus' = unsubscribe(bus, q)
    /\ trace' = [trace EXCEPT !.until[q] = trace.n]
    /\ call' = [op |-> "unsubscribe", queue |-> q]
    /\ UNCHANGED <<now, conn, disk, sched, sems, units, published, uuid>>

\* A task calls bus.publish (ingest/scheduler.py:1484 and the health events).
BusPublish ==
    /\ trace.publishes < MaxPublishes
    /\ LET event == trace.n + 1
           r == publish(bus, event)
       IN  /\ bus' = r.bus
           /\ trace' = [trace EXCEPT !.n = event, !.publishes = @ + 1]
           /\ call' = [op |-> "publish", event |-> event, raised |-> r.raised,
                       subscribers |-> bus.subscribers, pre |-> bus.queues]
    /\ UNCHANGED <<now, conn, disk, sched, sems, units, published, uuid>>

NextBus ==
    \/ SseSubscribe
    \/ \E q \in QueueIds : SseGet(q)
    \/ \E q \in QueueIds : SseUnsubscribe(q)
    \/ BusPublish

SpecBus == InitBus /\ [][NextBus]_vars

\* SpecCluster: assign_item_to_incident on the freshly inserted items of one
\* source, the only plugin of the registry, over three days.  The texts
\* are chosen by their real simhash64 values: all but Tx share the bucket of
\* T0, at the Hamming distance from T0 their name says, with a token Jaccard
\* against T0 of 3/4 (T4), 1/5 (T5, T8, T9), 3/5 (T10, T12, T13, T14),
\* 2/5 (T11) and 1/2 (Tc); Tx is at distance 1 from T0 in another bucket.
ClusterTexts ==
    [T0 |-> [title |-> <<"flood", "flood", "flood", "alert", "storm">>, summary |-> <<>>],
     T4 |-> [title |-> <<"strong", "flood", "flood", "alert", "storm">>, summary |-> <<>>],
     T5 |-> [title |-> <<"strong", "flood", "flood", "japan">>, summary |-> <<>>],
     T8 |-> [title |-> <<"flood", "flood", "coast", "japan">>, summary |-> <<>>],
     T9 |-> [title |-> <<"tokyo", "strong", "flood", "flood">>, summary |-> <<>>],
     T10 |-> [title |-> <<"strong", "flood", "flood", "alert">>, summary |-> <<"storm", "japan">>],
     T11 |-> [title |-> <<"tokyo", "strong", "strong", "flood", "flood", "alert">>, summary |-> <<>>],
     T12 |-> [title |-> <<"osaka", "flood", "flood", "alert">>, summary |-> <<"storm", "japan">>],
     T13 |-> [title |-> <<"tokyo", "strong", "flood", "flood", "alert", "storm">>, summary |-> <<>>],
     T14 |-> [title |-> <<"tokyo", "strong", "strong", "flood", "flood">>,
              summary |-> <<"alert", "alert", "storm">>],
     Tc |-> [title |-> <<"flood", "flood", "alert", "coast">>, summary |-> <<>>],
     Tx |-> [title |-> <<"quake", "strong", "flood", "flood", "storm">>, summary |-> <<>>]]

\* A record of the category with the text, without a location.
ClusterRec(src, category, text, raw) ==
    Rec(src, category, None, text, ClusterTexts[text].title, ClusterTexts[text].summary,
        0, "U_unknown", None, "none", _severity_score(category, raw))

MatchPool ==
    [n0 |-> ClusterRec("s1", "news", "T0", NoRaw),
     n4 |-> ClusterRec("s1", "news", "T4", NoRaw),
     n5 |-> ClusterRec("s1", "news", "T5", NoRaw),
     n10 |-> ClusterRec("s1", "news", "T10", NoRaw),
     n11 |-> ClusterRec("s1", "news", "T11", NoRaw),
     nc |-> ClusterRec("s1", "news", "Tc", NoRaw),
     nx |-> ClusterRec("s1", "news", "Tx", NoRaw),
     e0 |-> ClusterRec("s2", "earthquake", "T0", Raw("mag", JsonFloat(453))),
     e8 |-> ClusterRec("s2", "earthquake", "T8", Raw("mag", JsonInt(6))),
     e9 |-> ClusterRec("s2", "earthquake", "T9", NoRaw),
     e10 |-> ClusterRec("s2", "earthquake", "T10", NoRaw),
     e11 |-> ClusterRec("s2", "earthquake", "T11", NoRaw),
     e14 |-> ClusterRec("s2", "earthquake", "T14", NoRaw),
     d0 |-> ClusterRec("s3", "disaster", "T0", NoRaw),
     d5 |-> ClusterRec("s3", "disaster", "T5", NoRaw),
     d8 |-> ClusterRec("s3", "disaster", "T8", NoRaw),
     d9 |-> ClusterRec("s3", "disaster", "T9", NoRaw),
     d10 |-> ClusterRec("s3", "disaster", "T10", NoRaw),
     d12 |-> ClusterRec("s3", "disaster", "T12", NoRaw),
     d13 |-> ClusterRec("s3", "disaster", "T13", NoRaw)]

\* The items row of a record (scheduler.py:1452-1471).
ItemRow(item_id, name, rec) ==
    [item_id |-> item_id, rec |-> name,
     source_id |-> rec.source_id, category |-> rec.category,
     external_id |-> rec.external_id, url |-> rec.url,
     title |-> rec.title, summary |-> rec.summary,
     published_at |-> rec.published_at, utc_offset |-> rec.utc_offset,
     location_confidence |-> rec.location_confidence,
     loc |-> rec.loc, geom |-> rec.geom, severity |-> rec.severity,
     simhash |-> rec.simhash]

\* The item of the record inserted and committed under item_id, as lines
\* 1452-1480 leave the database.
WithItem(db, item_id, name, rec) ==
    [db EXCEPT !.items = InsertRow(db.items, item_id, ItemRow(item_id, name, rec))]

\* The first uuid of a run, and the assignments a run makes.
FirstUuid == 11
MaxAssigns == 2

\* The database after the records of names were inserted and assigned one
\* after the other at time t, with the ids from id on; a record whose
\* assignment raises ends the run of records.
RECURSIVE Seeded(_, _, _, _, _)
Seeded(db, pool, names, id, t) ==
    IF names = <<>> THEN db
    ELSE LET db1 == WithItem(db, id, Head(names), pool[Head(names)])
             bests == BestIncidents(db1, db1.items[id], t)
             best == IF bests = {} THEN None ELSE Some(CHOOSE b \in bests : TRUE)
             r == assign_item_to_incident(db1, db1, t, id, best, id + 1)
         IN  IF r.raised = "none" THEN Seeded(r.conn, pool, Tail(names), id + 2, t)
             ELSE db

\* What the database holds of each source when the run starts.
MatchSeeds ==
    [s1 |-> {<<>>, <<"n0", "nc">>}, s2 |-> {<<>>, <<"e0", "e9">>}, s3 |-> {<<>>, <<"d0", "d9">>}]

InitCluster ==
    /\ now = 0
    /\ \E p \in DOMAIN MatchSeeds : \E seed \in MatchSeeds[p] :
          /\ conn = Seeded(ensure_sources(EmptyDb(SourcesColumns), {p}, 0), MatchPool, seed, 1, 0)
          /\ units = [q \in {p} |-> NoUnit]
    /\ disk = conn
    /\ call = NoCall
    /\ sched = SchedOff
    /\ sems = NoSems
    /\ published = {}
    /\ uuid = FirstUuid
    /\ bus = EmptyBus
    /\ trace = NoTrace

\* A day passes.
MaxDays == 3
Wait ==
    /\ now + DaySeconds <= MaxDays * DaySeconds
    /\ now' = now + DaySeconds
    /\ UNCHANGED <<conn, disk, call, sched, sems, units, published, uuid, bus, trace>>

\* A work unit inserts the record and hands its item to the clusterer
\* (scheduler.py:1452-1484); a source serves a record once.
AssignNew(pool, name) ==
    /\ uuid < FirstUuid + 2 * MaxAssigns
    /\ pool[name].source_id \in DOMAIN units
    /\ \A i \in DOMAIN conn.items : conn.items[i].rec # name
    /\ LET db == WithItem(conn, uuid, name, pool[name])
           item == db.items[uuid]
           bests == BestIncidents(db, item, now)
       IN  \E best \in (IF bests = {} THEN {None} ELSE {Some(b) : b \in bests}) :
             LET r == assign_item_to_incident(db, db, now, uuid, best, uuid + 1)
             IN  /\ conn' = r.conn
                 /\ disk' = r.disk
                 /\ published' = published \cup {Published(r.ret, uuid, r.conn, r.disk)}
                 /\ call' = [op |-> "assign", t |-> now, item |-> item, best |-> best,
                             incidents |-> conn.incidents, links |-> conn.links,
                             raised |-> r.raised, event |-> r.ret]
    /\ uuid' = uuid + 2
    /\ UNCHANGED <<now, sched, sems, units, bus, trace>>

NextCluster ==
    \/ Wait
    \/ \E name \in DOMAIN MatchPool : AssignNew(MatchPool, name)

SpecCluster == InitCluster /\ [][NextCluster]_vars

\* SpecSeverity: items of every category and every kind of raw value, all
\* with the text T0 and each from a source of its own, so that the items of a
\* category gather in one incident.  The wildfire incident may hold nine
\* items of earlier cycles when the run starts, or the 24 hotspots of
\* HotspotPool.
SeverityRec(src, category, name, raw) ==
    Rec(src, category, None, name, ClusterTexts["T0"].title, ClusterTexts["T0"].summary,
        0, "U_unknown", None, "none", _severity_score(category, raw))

SeverityPool ==
    [q1 |-> SeverityRec("s1", "earthquake", "q1", NoRaw),
     q2 |-> SeverityRec("s2", "earthquake", "q2", Raw("mag", JsonFloat(453))),
     q3 |-> SeverityRec("s3", "earthquake", "q3", Raw("mag", JsonInt(9))),
     q4 |-> SeverityRec("s4", "earthquake", "q4", Raw("mag", JsonFloat(250))),
     a1 |-> SeverityRec("s1", "weather_alert", "a1", Raw("severity", JsonStr("Extreme"))),
     a2 |-> SeverityRec("s2", "weather_alert", "a2", Raw("severity", JsonStr("Minor"))),
     a3 |-> SeverityRec("s3", "weather_alert", "a3", NoRaw),
     t1 |-> SeverityRec("s1", "travel_advisory", "t1", Raw("advice_level", JsonStr("do_not_travel"))),
     t2 |-> SeverityRec("s2", "travel_advisory", "t2",
                        Raw("advice_level", JsonStr("reconsider_your_need_to_travel"))),
     t3 |-> SeverityRec("s3", "travel_advisory", "t3", NoRaw),
     v1 |-> SeverityRec("s1", "volcano", "v1", Raw("severity_level_1_5", JsonInt(3))),
     v2 |-> SeverityRec("s2", "volcano", "v2", Raw("severity_level_1_5", JsonInt(7))),
     v3 |-> SeverityRec("s3", "volcano", "v3", Raw("severity_level_1_5", JsonDigits(4))),
     v4 |-> SeverityRec("s4", "volcano", "v4", Raw("severity_level_1_5", JsonStr("high"))),
     v5 |-> SeverityRec("s5", "volcano", "v5", Raw("severity_level_1_5", JsonInt(0 - 1))),
     w1 |-> SeverityRec("d1", "wildfire", "w1", Raw("frp", JsonFloat(1250))),
     w2 |-> SeverityRec("d2", "wildfire", "w2", NoRaw),
     w3 |-> SeverityRec("d3", "wildfire", "w3", Raw("frp", JsonStr("n/a"))),
     w4 |-> SeverityRec("d4", "wildfire", "w4", Raw("frp", JsonInt(2))),
     w5 |-> SeverityRec("d5", "wildfire", "w5", Raw("frp", JsonInt(2))),
     w6 |-> SeverityRec("d6", "wildfire", "w6", Raw("frp", JsonInt(2))),
     w7 |-> SeverityRec("d7", "wildfire", "w7", Raw("frp", JsonInt(2))),
     w8 |-> SeverityRec("d8", "wildfire", "w8", Raw("frp", JsonInt(2))),
     w9 |-> SeverityRec("d9", "wildfire", "w9", Raw("frp", JsonInt(2))),
     w10 |-> SeverityRec("d10", "wildfire", "w10", Raw("frp", JsonFloat(150))),
     w11 |-> SeverityRec("d11", "wildfire", "w11", Raw("frp", JsonFloat(3400))),
     f1 |-> SeverityRec("s1", "aviation_disruption", "f1", Raw("severity_kind", JsonStr("closure"))),
     f2 |-> SeverityRec("s2", "aviation_disruption", "f2", Raw("avg_delay_min", JsonInt(20))),
     f3 |-> SeverityRec("s3", "aviation_disruption", "f3", Raw("avg_delay_min", JsonInt(95))),
     f4 |-> SeverityRec("s4", "aviation_disruption", "f4", Raw("severity_kind", JsonStr("gdp"))),
     f5 |-> SeverityRec("s5", "aviation_disruption", "f5", Raw("avg_delay_min", JsonFloat(6050))),
     c1 |-> SeverityRec("s1", "tropical_cyclone", "c1", NoRaw),
     c2 |-> SeverityRec("s1", "tsunami", "c2", NoRaw),
     c3 |-> SeverityRec("s1", "health_advisory", "c3", NoRaw),
     c4 |-> SeverityRec("s1", "cyber_kev", "c4", NoRaw),
     c5 |-> SeverityRec("s1", "cyber_cve", "c5", NoRaw),
     c6 |-> SeverityRec("s1", "disaster", "c6", NoRaw),
     c7 |-> SeverityRec("s1", "news", "c7", NoRaw)]

SeveritySources == {SeverityPool[n].source_id : n \in DOMAIN SeverityPool}

SeveritySeeds == {<<>>, <<"w1", "w2", "w3", "w4", "w5", "w6", "w7", "w8", "w9">>}

\* A wildfire incident of a run of hotspots: 24 detections of one feed, of
\* a low radiative power each, assigned one after the other in earlier
\* cycles.
HotspotNames ==
    <<"g1", "g2", "g3", "g4", "g5", "g6", "g7", "g8", "g9", "g10", "g11", "g12",
      "g13", "g14", "g15", "g16", "g17", "g18", "g19", "g20", "g21", "g22", "g23", "g24">>

HotspotPool ==
    [n \in {HotspotNames[k] : k \in DOMAIN HotspotNames} |->
        SeverityRec("d1", "wildfire", n, Raw("frp", JsonInt(2)))]

InitSeverity ==
    /\ now = 0
    /\ \/ \E seed \in SeveritySeeds :
             conn = Seeded(ensure_sources(EmptyDb(SourcesColumns), SeveritySources, 0),
                           SeverityPool, seed, FirstUuid - 2 * Len(seed), 0)
       \/ conn = Seeded(ensure_sources(EmptyDb(SourcesColumns), SeveritySources, 0),
                        HotspotPool, HotspotNames, FirstUuid - 2 * Len(HotspotNames), 0)
    /\ disk = conn
    /\ call = NoCall
    /\ sched = SchedOff
    /\ sems = NoSems
    /\ units = [p \in SeveritySources |-> NoUnit]
    /\ published = {}
    /\ uuid = FirstUuid
    /\ bus = EmptyBus
    /\ trace = NoTrace

NextSeverity == \E name \in DOMAIN SeverityPool : AssignNew(SeverityPool, name)

SpecSeverity == InitSeverity /\ [][NextSeverity]_vars

(***************************************************************************)
(* SpecGeo: the clusterer on items with coordinates and geometries          *)
(***************************************************************************)
\* Items of one text, each from a source of its own, with the locations the
\* normalizers produce: a geometry with the centroid of its extents and
\* A_exact (Point, Polygon, or a type _bbox_from_geojson does not know, which
\* leaves lat and lon empty), coordinates without a geometry (a feed's default
\* region, a country centroid, a gazetteer match, coordinates in the text), or
\* nothing.
GeoRec(src, category, name, conf, loc, geom, sev) ==
    [Rec(src, category, None, name, ClusterTexts["T0"].title, ClusterTexts["T0"].summary,
         0, conf, loc, "none", sev) EXCEPT !.geom = geom]

Point(lon, lat) == Some(Geometry("Point", {<<lon, lat>>}))

GeoPool ==
    [v1 |-> GeoRec("d1", "volcano", "v1", "A_exact", Some(<<0, 0>>), Point(0, 0), 70),
     v2 |-> GeoRec("d2", "volcano", "v2", "A_exact", Some(<<0, 2>>), Point(2, 0), 70),
     v3 |-> GeoRec("d3", "volcano", "v3", "A_exact", Some(<<1, 2>>),
                   Some(Geometry("Polygon", {<<0, 0>>, <<4, 0>>, <<4, 2>>, <<0, 2>>})), 70),
     v4 |-> GeoRec("d4", "volcano", "v4", "U_unknown", None, None, 70),
     v5 |-> GeoRec("d5", "volcano", "v5", "A_exact", Some(<<2, 4>>), Point(4, 2), 70),
     v6 |-> GeoRec("d6", "volcano", "v6", "A_exact", None,
                   Some(Geometry("GeometryCollection", {})), 70),
     v7 |-> GeoRec("d1", "volcano", "v7", "A_exact", Some(<<0, 0>>), Point(0, 0), 70),
     t1 |-> GeoRec("s1", "tsunami", "t1", "C_source_default", Some(<<2, 4>>), None, 90),
     t2 |-> GeoRec("s2", "tsunami", "t2", "A_exact", Some(<<0, 0>>), Point(0, 0), 90),
     t3 |-> GeoRec("s3", "tsunami", "t3", "U_unknown", None, None, 90),
     t4 |-> GeoRec("s4", "tsunami", "t4", "A_exact", Some(<<1, 3>>),
                   Some(Geometry("Polygon", {<<2, 0>>, <<4, 0>>, <<4, 2>>})), 90),
     n1 |-> GeoRec("s5", "news", "n1", "U_unknown", None, None, 40),
     n2 |-> GeoRec("s6", "news", "n2", "C_country", Some(<<0, 0>>), None, 40),
     n3 |-> GeoRec("s7", "news", "n3", "B_place_match", Some(<<0, 2>>), None, 40),
     n4 |-> GeoRec("d7", "news", "n4", "B_coords_in_text", Some(<<2, 2>>), None, 40)]

\* What the database holds of each category when the run starts.
GeoSeeds ==
    [volcano |-> {<<>>, <<"v1">>, <<"v3">>}, tsunami |-> {<<>>, <<"t1">>, <<"t2">>}, news |-> {<<>>}]

GeoSources(category) ==
    {GeoPool[n].source_id : n \in {m \in DOMAIN GeoPool : GeoPool[m].category = category}}

InitGeo ==
    /\ now = 0
    /\ \E category \in DOMAIN GeoSeeds : \E seed \in GeoSeeds[category] :
          /\ conn = Seeded(ensure_sources(EmptyDb(SourcesColumns), GeoSources(category), 0),
                           GeoPool, seed, FirstUuid - 2 * Len(seed), 0)
          /\ units = [q \in GeoSources(category) |-> NoUnit]
    /\ disk = conn
    /\ call = NoCall
    /\ sched = SchedOff
    /\ sems = NoSems
    /\ published = {}
    /\ uuid = FirstUuid
    /\ bus = EmptyBus
    /\ trace = NoTrace

NextGeo ==
    \/ Wait
    \/ \E name \in DOMAIN GeoPool : AssignNew(GeoPool, name)

SpecGeo == InitGeo /\ [][NextGeo]_vars

(***************************************************************************)
(* SpecRetention: retention passes over incidents and items of every age   *)
(***************************************************************************)
\* normalize_nws_alert (normalize/normalize.py:126-214) on an alert without
\* geometry: published_at is the feed's "effective" text as it stands, local
\* time with the offset of the issuing office.
normalize_nws_alert(src, name, effective, offset) ==
    [Rec(src, "weather_alert", None, name, ClusterTexts["T0"].title,
         ClusterTexts["T0"].summary, effective, "U_unknown", None, "none", 40)
       EXCEPT !.utc_offset = offset]

\* The moment a published_at text denotes.
Instant(item) == item.published_at - item.utc_offset

\* Two disaster reports of one text from two feeds, and two alerts that took
\* effect at the moment 0: one issued in UTC and one in Guam (+10:00).
RetentionPool ==
    [a |-> ClusterRec("d1", "disaster", "T0", NoRaw),
     b |-> [ClusterRec("d2", "disaster", "T0", NoRaw) EXCEPT !.url = "b"],
     z |-> normalize_nws_alert("s1", "z", 0, 0),
     g |-> normalize_nws_alert("s2", "g", 10 * 3600, 10 * 3600)]

\* What the database holds when the run starts.
RetentionSeeds == {<<>>, <<"a">>, <<"g">>, <<"a", "z">>}

\* The moments at which something happens: they put ages of exactly 24
\* hours, 72 hours and 30 days, and ages 6 hours beyond 24 hours, 72 hours,
\* 30 days and 90 days, between an assignment and a retention pass.
Instants ==
    {0, DaySeconds, 30 * 3600, 3 * DaySeconds, 78 * 3600,
     items_retention_days * DaySeconds, items_retention_days * DaySeconds + 6 * 3600,
     incidents_retention_days * DaySeconds + 6 * 3600}

RetentionSources == {RetentionPool[n].source_id : n \in DOMAIN RetentionPool}

\* run_scheduler has started at 0 (line 859: the first pass is due after ten
\* minutes) and sleeps between two cycles.
InitRetention ==
    /\ now = 0
    /\ \E seed \in RetentionSeeds :
          conn = Seeded(ensure_sources(EmptyDb(SourcesColumns), RetentionSources, 0),
                        RetentionPool, seed, FirstUuid - 2 * Len(seed), 0)
    /\ units = [q \in RetentionSources |-> NoUnit]
    /\ disk = conn
    /\ call = NoCall
    /\ sched = [pc |-> "sleep", next_cleanup_at |-> 600]
    /\ sems = NoSems
    /\ published = {}
    /\ uuid = FirstUuid
    /\ bus = EmptyBus
    /\ trace = NoTrace

\* Time passes until a later moment.
Sleep ==
    /\ \E t \in Instants : t > now /\ now' = t
    /\ UNCHANGED <<conn, disk, call, sched, sems, units, published, uuid, bus, trace>>

\* Lines 922-924 when the pass is due: _run_retention, and the next pass an
\* hour later.
Retention ==
    /\ now >= sched.next_cleanup_at
    /\ CleanupCheck(sched.pc)
    /\ call' = [op |-> "retention", t |-> now, incidents |-> conn.incidents,
                items |-> conn.items, links |-> conn.links]
    /\ UNCHANGED <<now, sems, units, published, uuid, bus, trace>>

NextRetention ==
    \/ Sleep
    \/ Retention
    \/ \E name \in DOMAIN RetentionPool : AssignNew(RetentionPool, name)

SpecRetention == InitRetention /\ [][NextRetention]_vars

(***************************************************************************)
(* SpecLife: assignments, merges and retention passes over three days       *)
(***************************************************************************)
\* Three volcano reports of one text within 120 km of each other, two of
\* them from one feed.
LifeNames == {"v1", "v2", "v7"}

\* What the database holds when the run starts.
LifeSeeds == {<<>>, <<"v1">>}

\* The moments at which something happens: ages of 24, 30, 48, 72 and 78
\* hours between two of them.
LifeInstants == {0, DaySeconds, 30 * 3600, 2 * DaySeconds, 3 * DaySeconds, 78 * 3600}

InitLife ==
    /\ now = 0
    /\ \E seed \in LifeSeeds :
          conn = Seeded(ensure_sources(EmptyDb(SourcesColumns), GeoSources("volcano"), 0),
                        GeoPool, seed, FirstUuid - 2 * Len(seed), 0)
    /\ units = [q \in GeoSources("volcano") |-> NoUnit]
    /\ disk = conn
    /\ call = NoCall
    /\ sched = [pc |-> "sleep", next_cleanup_at |-> 600]
    /\ sems = NoSems
    /\ published = {}
    /\ uuid = FirstUuid
    /\ bus = EmptyBus
    /\ trace = NoTrace

\* Time passes until a later moment: the clock does not go back.
SleepLife ==
    /\ \E t \in LifeInstants : t > now /\ now' = t
    /\ UNCHANGED <<conn, disk, call, sched, sems, units, published, uuid, bus, trace>>

NextLife ==
    \/ SleepLife
    \/ Retention
    \/ \E name \in LifeNames : AssignNew(GeoPool, name)

SpecLife == InitLife /\ [][NextLife]_vars

(***************************************************************************)
(* SpecUrl: canonicalize_url (cluster/clusterer.py:27-55) with the         *)
(* functions of urllib.parse it calls, as CPython 3.11 defines them        *)
(***************************************************************************)
\* A URL is a sequence of pieces of text.  The delimiters and "+" and " "
\* are pieces of one character; a percent escape is one piece; the other
\* pieces are runs of letters, and "utm_" / "Utm_" end in an underscore.
\* "%E9" is a byte that is no UTF-8 text (an e acute in Latin-1), "U+FFFD"
\* is the replacement character and "%EF%BF%BD" its escape.
Find(s, pieces, start) ==
    LET hits == {k \in start..Len(s) : s[k] \in pieces}
    IN  IF hits = {} THEN 0 ELSE CHOOSE k \in hits : \A j \in hits : k <= j

Upto(s, k) == SubSeq(s, 1, k - 1)
From(s, k) == SubSeq(s, k, Len(s))

\* url[:2] == "//"
BeginsSlashSlash(url) == Len(url) >= 2 /\ url[1] = "/" /\ url[2] = "/"

\* str.casefold, str.lower: the same on the pieces of the model.
casefold(piece) ==
    CASE piece = "HTTP" -> "http"
      [] piece = "H" -> "h"
      [] piece = "Utm_" -> "utm_"
      [] OTHER -> piece

str_casefold(s) == [k \in DOMAIN s |-> casefold(s[k])]

\* The pieces made of letters, digits, "+", "-" and "." only, and those that
\* begin with an ASCII letter.
scheme_chars == {"http", "HTTP", "h", "H", "a", "fbclid", "+"}
Letters == {"http", "HTTP", "h", "H", "a", "fbclid", "utm_", "Utm_"}

\* urllib.parse.uses_netloc, as far as the model has schemes.
uses_netloc == {<<"http">>}

\* urlsplit, last step: the query is what follows the first "?".
SplitQuery(scheme, netloc, url, fragment) ==
    LET q == Find(url, {"?"}, 1)
    IN  [scheme |-> scheme, netloc |-> netloc,
         path |-> IF q = 0 THEN url ELSE Upto(url, q),
         query |-> IF q = 0 THEN <<>> ELSE From(url, q + 1),
         fragment |-> fragment]

\* urlsplit, third step: the fragment is what follows the first "#".
SplitFragment(scheme, netloc, url) ==
    LET h == Find(url, {"#"}, 1)
    IN  IF h = 0 THEN SplitQuery(scheme, netloc, url, <<>>)
        ELSE SplitQuery(scheme, netloc, Upto(url, h), From(url, h + 1))

\* urlsplit, second step (_splitnetloc): after "//" the authority runs to the
\* first "/", "?" or "#".
SplitNetloc(scheme, url) ==
    IF BeginsSlashSlash(url)
    THEN LET d == Find(url, {"/", "?", "#"}, 3)
             delim == IF d = 0 THEN Len(url) + 1 ELSE d
         IN  SplitFragment(scheme, SubSeq(url, 3, delim - 1), From(url, delim))
    ELSE SplitFragment(scheme, <<>>, url)

\* urllib.parse.urlsplit: a scheme is what stands before the first ":" when
\* it begins with a letter and holds scheme characters only.
urlsplit(url) ==
    LET i == Find(url, {":"}, 1)
    IN  IF i > 1 /\ url[1] \in Letters /\ (\A k \in 1..(i - 1) : url[k] \in scheme_chars)
        THEN SplitNetloc(str_casefold(Upto(url, i)), From(url, i + 1))
        ELSE SplitNetloc(<<>>, url)

\* urllib.parse.urlunsplit of CPython 3.11: "//" is written when there is an
\* authority, or when the scheme uses one and the path does not begin "//".
WithScheme(scheme, url, query) ==
    (IF scheme = <<>> THEN <<>> ELSE scheme \o <<":">>) \o url
       \o (IF query = <<>> THEN <<>> ELSE <<"?">> \o query)

urlunsplit(scheme, netloc, url, query) ==
    IF \/ netloc # <<>>
       \/ (scheme # <<>> /\ scheme \in uses_netloc /\ ~ BeginsSlashSlash(url))
    THEN WithScheme(scheme,
                    <<"/", "/">> \o netloc
                       \o (IF url # <<>> /\ url[1] # "/" THEN <<"/">> ELSE <<>>) \o url,
                    query)
    ELSE WithScheme(scheme, url, query)

\* unquote after replace("+", " "), with errors = "replace": a byte that is
\* no UTF-8 text becomes the replacement character.
unquote(piece) ==
    CASE piece = "+" -> " "
      [] piece = "%26" -> "&"
      [] piece = "%3D" -> "="
      [] piece = "%3F" -> "?"
      [] piece = "%E9" -> "U+FFFD"
      [] piece = "%EF%BF%BD" -> "U+FFFD"
      [] OTHER -> piece

\* The bytes the piece stands for (unquote_to_bytes).
unquote_to_bytes(piece) == IF piece = "%E9" THEN "0xE9" ELSE unquote(piece)

\* quote_plus: letters, digits and "_.-~" stay, a space becomes "+", every
\* other character its escape.
quote_plus(piece) ==
    CASE piece = " " -> "+"
      [] piece = "&" -> "%26"
      [] piece = "=" -> "%3D"
      [] piece = "?" -> "%3F"
      [] piece = "U+FFFD" -> "%EF%BF%BD"
      [] OTHER -> piece

RECURSIVE SplitOn(_, _)
\* str.split(sep).
SplitOn(s, sep) ==
    IF Find(s, {sep}, 1) = 0 THEN <<s>>
    ELSE <<Upto(s, Find(s, {sep}, 1))>> \o SplitOn(From(s, Find(s, {sep}, 1) + 1), sep)

\* name_value.split("=", 1) with a blank value when there is no "=".
NameValue(s) ==
    IF Find(s, {"="}, 1) = 0 THEN <<s, <<>>>>
    ELSE <<Upto(s, Find(s, {"="}, 1)), From(s, Find(s, {"="}, 1) + 1)>>

Decoded(pair, decode(_)) ==
    <<[k \in DOMAIN pair[1] |-> decode(pair[1][k])],
      [k \in DOMAIN pair[2] |-> decode(pair[2][k])]>>

RECURSIVE Pairs(_)
Pairs(segments) ==
    IF segments = <<>> THEN <<>>
    ELSE (IF Head(segments) = <<>> THEN <<>> ELSE <<NameValue(Head(segments))>>)
            \o Pairs(Tail(segments))

\* The fields of the query as written, empty ones skipped.
RawPairs(qs) == IF qs = <<>> THEN <<>> ELSE Pairs(SplitOn(qs, "&"))

\* parse_qsl(qs, keep_blank_values=True).
parse_qsl(qs) == [k \in DOMAIN RawPairs(qs) |-> Decoded(RawPairs(qs)[k], unquote)]

RECURSIVE urlencode(_)
\* urlencode(pairs, doseq=True) on pairs of text.
urlencode(pairs) ==
    IF pairs = <<>> THEN <<>>
    ELSE [k \in DOMAIN Head(pairs)[1] |-> quote_plus(Head(pairs)[1][k])] \o <<"=">>
            \o [k \in DOMAIN Head(pairs)[2] |-> quote_plus(Head(pairs)[2][k])]
            \o (IF Tail(pairs) = <<>> THEN <<>> ELSE <<"&">> \o urlencode(Tail(pairs)))

_TRACKING_PARAM_NAMES == {<<"fbclid">>, <<"gclid">>, <<"mc_cid">>, <<"mc_eid">>, <<"mkt_tok">>}

\* Lines 40-44: the key is dropped.
IsTracking(key) ==
    \/ (key # <<>> /\ casefold(key[1]) = "utm_")
    \/ str_casefold(key) \in _TRACKING_PARAM_NAMES

KeepsPair(pair) == ~ IsTracking(pair[1])

Canonical(parts) ==
    urlunsplit(parts.scheme, str_casefold(parts.netloc), parts.path,
               urlencode(SelectSeq(parse_qsl(parts.query), KeepsPair)))

canonicalize_url(url) == Canonical(urlsplit(url))

\* The URLs given to canonicalize_url: with and without a scheme, without
\* "//", with an empty and with a named authority, with a path that begins
\* with one or with two slashes, with every query of at most MaxQueryLen
\* pieces and three longer ones, with and without a fragment.
MaxQueryLen == 3

QueryPieces == {"a", "Utm_", "fbclid", "=", "&", "+", "%E9"}

Schemes == {<<>>, <<"HTTP", ":">>}
Authorities == {<<>>, <<"/", "/">>, <<"/", "/", "H">>}
Paths == {<<>>, <<"/", "a">>, <<"/", "/", "H">>}
Fragments == {<<>>, <<"#", "Utm_", "=", "a">>}

Queries ==
    {<<>>}
      \cup {<<"?">> \o q : q \in UNION {[1..n -> QueryPieces] : n \in 0..MaxQueryLen}}
      \cup {<<"?", "a", "=", "%E9", "&", "Utm_", "a", "=", "a", "&", "a", "=", "+">>,
             <<"?", "utm_", "=", "a", "&", "a", "Utm_", "=", "%26", "&", "fbclid">>,
             <<"?", "a", "=", "a", "=", "&", "&", "gclid", "=", "?", "a">>}

InitUrl ==
    /\ now = 0
    /\ conn = EmptyDb(SourcesColumns)
    /\ disk = conn
    /\ \E scheme \in Schemes : \E authority \in Authorities : \E path \in Paths :
          \E query \in Queries : \E fragment \in Fragments :
             call = [op |-> "url", url |-> scheme \o authority \o path \o query \o fragment,
                     out |-> <<>>]
    /\ sched = SchedOff
    /\ sems = NoSems
    /\ units = [p \in {} |-> NoUnit]
    /\ published = {}
    /\ uuid = 1
    /\ bus = EmptyBus
    /\ trace = NoTrace

\* A normalizer canonicalizes the URL of the feed; what it stored is
\* canonicalized again when the same address comes back.
Canonicalize ==
    /\ call.op \in {"url", "canonicalize_url"}
    /\ \E url \in {IF call.op = "url" THEN call.url ELSE call.out} :
          call' = [op |-> "canonicalize_url", url |-> url, out |-> canonicalize_url(url)]
    /\ UNCHANGED <<now, conn, disk, sched, sems, units, published, uuid, bus, trace>>

NextUrl == Canonicalize

SpecUrl == InitUrl /\ [][NextUrl]_vars

(***************************************************************************)
(* Claims on the scheduler and the work units                              *)
(***************************************************************************)
\* C1: a work unit that fails, by a handled error outcome or by an exception
\* raised while it parses, normalizes, inserts or clusters, never terminates
\* the scheduler loop: run_scheduler never ends with an exception.
C1_SchedulerNeverAborts == sched.pc # "crashed"

\* C2: every incident.created, incident.updated and source.health event is
\* published only after the transaction that wrote the incident or the source
\* row has been committed: at bus.publish the rows the event describes are the
\* same in the committed database as on the connection.
C2_PublishedAfterCommit == \A e \in published : e.committed

\* C2 witness: an event of each of the three types has been published.
C2_Witness ==
    /\ \E e \in published : e.event.type = "source.health" /\ ~IsNone(e.event.backoff)
    /\ \E e \in published : e.event.type = "incident.created"
    /\ \E e \in published : e.event.type = "incident.updated"

\* C3: at any instant every item of the items table is linked to exactly one
\* incident through incident_items.
C3_EveryItemInOneIncident ==
    \A i \in DOMAIN disk.items : Cardinality({l \in disk.links : l[2] = i}) = 1

\* The work units inside "async with global_sem", and inside "async with
\* global_sem, host_sem".
InsideGlobal == {p \in DOMAIN units : units[p].pc \in {"wait_host", "fetching", "cluster"}}
InsideHost == {p \in DOMAIN units : units[p].pc \in {"fetching", "cluster"}}

\* C4: at every instant at most 4 work units are inside the section guarded
\* by the global semaphore, however many sources are due.
C4_AtMostFourInside == Cardinality(InsideGlobal) <= 4

\* C4 witness: four units hold a permit while a fifth waits for one.
C4_Witness ==
    /\ Cardinality(InsideGlobal) = 4
    /\ \E p \in DOMAIN units : units[p].pc = "wait_global"

\* C5: at every instant at most one work unit per host of the plugin's url is
\* inside the fetch section.
C5_OnePerHost ==
    \A p, q \in InsideHost : plugin_host[p] = plugin_host[q] => p = q

\* C5 witness: one unit fetches while another unit of the same host holds a
\* global permit and waits for the host.
C5_Witness ==
    \E p \in InsideHost : \E q \in DOMAIN units :
        /\ q # p
        /\ plugin_host[q] = plugin_host[p]
        /\ units[q].pc = "wait_host"

\* The rows the last response added, and those it added for the record n.
NewIds == DOMAIN conn.items \ DOMAIN call.pre_items
NewRows(n) == {i \in NewIds : conn.items[i].rec = n}

\* The items stored when the k-th record of the last response was handled.
StoredBefore(k) ==
    {conn.items[i] : i \in DOMAIN call.pre_items \cup
        {x \in NewIds : \E j \in 1..(k - 1) : conn.items[x].rec = call.resp.records[j]}}

\* The k-th record of the last response is a duplicate in the words of C6.
ClaimedDuplicate(k) ==
    LET rec == RecordPool[call.resp.records[k]]
        byExternalId == rec.category = "news" /\ ~IsNone(rec.external_id)
    IN  \/ /\ byExternalId
           /\ \E x \in StoredBefore(k) :
                x.source_id = rec.source_id /\ x.external_id = rec.external_id
        \/ /\ ~byExternalId
           /\ \E x \in StoredBefore(k) :
                /\ x.source_id = rec.source_id
                /\ x.title = rec.title
                /\ x.published_at >= call.t - 24 * 3600
        \/ \E x \in StoredBefore(k) :
                \/ x.url = rec.url
                \/ /\ ~IsNone(rec.external_id)
                   /\ x.source_id = rec.source_id
                   /\ x.external_id = rec.external_id

IngestDone == call.op = "respond" /\ call.raised = "none" /\ call.resp.records # <<>>

C7_UniqueItems ==
    \A db \in {conn, disk} : \A i, j \in DOMAIN db.items :
        i # j =>
            /\ db.items[i].url # db.items[j].url
            /\ \/ IsNone(db.items[i].external_id)
               \/ db.items[i].source_id # db.items[j].source_id
               \/ db.items[i].external_id # db.items[j].external_id

\* C7 witness: a source served a record whose url an item of another source
\* already has, and no row was stored for it.
C7_Witness ==
    /\ IngestDone
    /\ \E k \in DOMAIN call.resp.records :
          LET rec == RecordPool[call.resp.records[k]]
          IN  /\ NewRows(call.resp.records[k]) = {}
              /\ \E i \in DOMAIN call.pre_items :
                    /\ conn.items[i].url = rec.url
                    /\ conn.items[i].source_id # rec.source_id

\* The record asks for the country fallback of lines 1416-1421 and its
\* country is in the places table.
CountryFound(rec) ==
    /\ rec.location_confidence = "C_country"
    /\ IsNone(rec.loc)
    /\ rec.ctry # "none"
    /\ ~ IsNone(find_country_centroid(rec.ctry))

\* C27: while a work unit handles its records, the lat/lon of an item become
\* a country centroid only if that item has location_confidence C_country,
\* no latitude and a location name whose country centroid is found; handling
\* any other item raises no error and leaves its lat/lon as they were,
\* whatever records were handled before it.
C27_CentroidOnlyForCountry ==
    /\ call.op = "respond" => call.raised # "UnboundLocalError"
    /\ IngestDone =>
          \A i \in NewIds :
             conn.items[i].loc # RecordPool[conn.items[i].rec].loc
                => CountryFound(RecordPool[conn.items[i].rec])

\* The record is served only in responses on which the work unit fails
\* inside the insertion block, after it has inserted the records before.
OnlyInFailedCycles(n) ==
    \A p \in DOMAIN units : \A resp \in Responses(p) :
       (\E k \in DOMAIN resp.records : resp.records[k] = n)
          => \E k \in DOMAIN resp.records : resp.records[k] \in Malformed

\* C28: the insertion of a work unit is all or nothing: when the unit fails
\* with an exception inside the insertion block, no item it inserted in that
\* cycle is ever in the committed database, whichever commit another work
\* unit, the health tracker or the clusterer issues later on the connection.
C28_AllOrNothing ==
    \A i \in DOMAIN disk.items : ~ OnlyInFailedCycles(disk.items[i].rec)

\* The seconds of the Retry-After header of a response (header names are
\* case-insensitive, RFC 9110), 0 when it has none that is a number.
RetryAfterSeconds(headers) ==
    IF \E n \in DOMAIN headers : n \in {"Retry-After", "retry-after"} /\ headers[n].isdigit
    THEN (CHOOSE v \in {headers[n] : n \in DOMAIN headers \cap {"Retry-After", "retry-after"}} : v.isdigit).n
    ELSE 0

\* C10: after a 429 the source is recorded as an error of kind http_429 and
\* next_fetch_at is at least max(backoff, Retry-After) seconds after now.
C10_RetryAfterHonoured ==
    (call.op = "respond" /\ call.resp.kind = "http" /\ call.resp.status = 429) =>
        /\ call.raised = "none"
        /\ LET pre == Get(call.pre)
               row == conn.sources[call.source_id]
               f == pre["consecutive_failures"] + 1
               backoff == Min(3600, pre["poll_interval_seconds"] * (2 ^ f))
           IN  /\ row["last_error"] = Some("http_429")
               /\ row["consecutive_failures"] = f
               /\ Get(row["next_fetch_at"])
                    >= call.t + Max(backoff, RetryAfterSeconds(call.resp.headers))

\* The max-age of the Cache-Control header of a response (header names are
\* case-insensitive), None when it has none.
MaxAgeOf(headers) ==
    IF \E n \in DOMAIN headers : n \in {"Cache-Control", "cache-control"}
    THEN (CHOOSE v \in {headers[n] : n \in DOMAIN headers \cap {"Cache-Control", "cache-control"}} : TRUE).max_age
    ELSE None

\* The health events the last response published for its source.
HealthEventsOfCall ==
    {e \in call.events : e.event.type = "source.health" /\ e.event.source_id = call.source_id}

\* C11: a 304 is a success: consecutive_failures is cleared, next_fetch_at is
\* now + the Cache-Control max-age when the response has one and now + the
\* poll interval otherwise, exactly one source.health event is published and
\* nothing is inserted or handed to the clusterer.
C11_NotModifiedIsSuccess ==
    (call.op = "respond" /\ call.resp.kind = "http" /\ call.resp.status = 304) =>
        /\ call.raised = "none"
        /\ LET pre == Get(call.pre)
               row == conn.sources[call.source_id]
               max_age == MaxAgeOf(call.resp.headers)
               next_in == IF IsNone(max_age) THEN pre["poll_interval_seconds"]
                          ELSE Get(max_age)
           IN  /\ row["consecutive_failures"] = 0
               /\ row["next_fetch_at"] = Some(call.t + next_in)
               /\ Cardinality(HealthEventsOfCall) = 1
               /\ call.events = HealthEventsOfCall
               /\ call.inserted = <<>>
               /\ DOMAIN conn.items = DOMAIN call.pre_items

\* The last response ended through a handled outcome: the work unit recorded
\* a success or an error on the source row and nothing was raised.
HandledOutcome == call.op = "respond" /\ call.raised = "none"

NextFetchLaterUnlessZero ==
    HandledOutcome =>
        LET row == conn.sources[call.source_id]
        IN  /\ ~IsNone(row["next_fetch_at"])
            /\ Get(row["next_fetch_at"]) >= call.t
            /\ (call.resp.kind = "http" /\ MaxAgeOf(call.resp.headers) = Some(0))
                    \/ Get(row["next_fetch_at"]) > call.t

\* C12: when the parser fails on the body of a 200 response, the work unit
\* records the error kind parse_error on the source (consecutive_failures + 1,
\* backoff applied), publishes one source.health event and exits without
\* recording a success and without inserting an item.
C12_ParseFailureRecorded ==
    (call.op = "respond" /\ call.resp.kind = "http" /\ call.resp.status = 200
        /\ call.resp.parse # "ok") =>
        /\ call.raised = "none"
        /\ LET pre == Get(call.pre)
               row == conn.sources[call.source_id]
               f == pre["consecutive_failures"] + 1
           IN  /\ row["last_error"] = Some("parse_error")
               /\ row["consecutive_failures"] = f
               /\ row["next_fetch_at"]
                    = Some(call.t + Min(3600, pre["poll_interval_seconds"] * (2 ^ f)))
               /\ row["last_success_at"] = pre["last_success_at"]
               /\ Cardinality(HealthEventsOfCall) = 1
               /\ call.inserted = <<>>
               /\ DOMAIN conn.items = DOMAIN call.pre_items

\* The last response ended the work unit on an error outcome.
ErrorOutcome ==
    /\ call.op = "respond"
    /\ \/ call.resp.kind \in {"timeout", "auth_timeout"}
       \/ call.resp.kind = "http" /\ call.resp.status \notin {200, 304}
       \/ call.resp.kind = "http" /\ call.resp.status = 200 /\ call.resp.parse # "ok"

\* The work unit of p waits at an await: for a semaphore, for the HTTP
\* response, or in bus.publish between two items of the clusterer loop.
Suspended(p) == units[p].pc \in {"wait_global", "wait_host", "fetching", "cluster"}

\* C37: no task is suspended (awaiting HTTP, a semaphore, a bus publish or a
\* sleep) while the store lock is held or a store transaction is open: what
\* the connection holds is committed whenever a work unit waits.
C37_NoSuspensionInTransaction ==
    (\E p \in DOMAIN units : Suspended(p)) => disk = conn

\* What holds of the code: a transaction is open at an await only after a
\* work unit has ended with an exception.
OpenTransactionOnlyAfterRaise ==
    (\A p \in DOMAIN units : units[p].pc # "raised") => disk = conn

\* The value the response gives under one of the names, if it has one.
HeaderOf(headers, names) ==
    IF DOMAIN headers \cap names = {} THEN None
    ELSE Some(headers[CHOOSE n \in DOMAIN headers \cap names : TRUE])

\* The row of the source holds the validators of its last response, the
\* headers being read under the names given: a 304 without a validator keeps
\* the stored one, a 200 stores what the response has, and an error outcome
\* leaves etag, last_modified, last_success_at and success_count as they
\* were; a work unit sends the validators of the row.
ValidatorsStored(etag_names, last_modified_names) ==
    /\ call.op = "respond" =>
          LET pre == Get(call.pre)
              row == conn.sources[call.source_id]
              etag_out == HeaderOf(call.resp.headers, etag_names)
              last_modified_out == HeaderOf(call.resp.headers, last_modified_names)
          IN  /\ (call.resp.kind = "http" /\ call.resp.status = 304) =>
                    /\ row["etag"] = IF IsNone(etag_out) THEN pre["etag"] ELSE etag_out
                    /\ row["last_modified"] = IF IsNone(last_modified_out)
                                              THEN pre["last_modified"] ELSE last_modified_out
              /\ (call.resp.kind = "http" /\ call.resp.status = 200 /\ call.resp.parse = "ok") =>
                    /\ row["etag"] = etag_out
                    /\ row["last_modified"] = last_modified_out
              /\ ErrorOutcome =>
                    \A col \in {"etag", "last_modified", "last_success_at", "success_count"}
                                \cap DOMAIN pre : row[col] = pre[col]
    /\ \A p \in DOMAIN units :
          units[p].pc \in {"wait_global", "wait_host", "fetching"} =>
             /\ units[p].etag = conn.sources[p]["etag"]
             /\ units[p].last_modified = conn.sources[p]["last_modified"]

\* C36: the ETag and Last-Modified validators sent on the next conditional
\* request of a source are those of its most recent 200 or 304 response: a
\* 304 that carries no validators keeps the stored ones, a 200 replaces them
\* with the values of the response, and every error outcome leaves the stored
\* etag, last_modified, last_success_at and success_count unchanged.
C36_ValidatorsFollowResponses ==
    ValidatorsStored({"ETag", "etag"}, {"Last-Modified", "last-modified"})

\* What holds of the code: the same on a sources table that has the counter
\* columns, for the validators the headers map spells "ETag" and
\* "Last-Modified".
ValidatorsByExactName ==
    "success_count" \in conn.sources_cols => ValidatorsStored({"ETag"}, {"Last-Modified"})

\* C13: a work unit that ends on an error outcome performs exactly one
\* record_fetch_error on the source row (consecutive_failures rises by one,
\* last_error is set), then publishes exactly one source.health event for the
\* source, and returns: it fetches the source no second time in the cycle.
C13_OneErrorOneEvent ==
    ErrorOutcome =>
        /\ call.raised = "none"
        /\ LET pre == Get(call.pre)
               row == conn.sources[call.source_id]
           IN  /\ row["consecutive_failures"] = pre["consecutive_failures"] + 1
               /\ ~IsNone(row["last_error"])
               /\ row["last_error_at"] = Some(call.t)
        /\ Cardinality(HealthEventsOfCall) = 1
        /\ call.events = HealthEventsOfCall
        /\ call.pc = "done"

\* The sources the claim lets a cycle spawn work units for, as the due query
\* saw them.
Eligible ==
    {p \in DOMAIN call.sources :
        /\ call.sources[p]["enabled"] = 1
        /\ ~IsNone(call.sources[p]["next_fetch_at"])
        /\ Get(call.sources[p]["next_fetch_at"]) <= call.t}

\* C14: in each cycle work units are spawned only for sources that had
\* enabled = 1 and next_fetch_at <= now at selection time, at most 12 of them,
\* taken in ascending next_fetch_at order (no source left out was due earlier
\* than one taken); while polling_enabled is '0' none is spawned.
C14_DueSelection ==
    call.op = "select" =>
        /\ call.spawned \subseteq Eligible
        /\ Cardinality(call.spawned) <= 12
        /\ \A p \in call.spawned : \A q \in Eligible \ call.spawned :
              Get(call.sources[p]["next_fetch_at"]) <= Get(call.sources[q]["next_fetch_at"])
        /\ call.polling = Some("0") => call.spawned = {}
        /\ sched.pc = "gather" =>
              {p \in DOMAIN units : units[p].pc # "none"} = call.spawned

\* C14 witness: twelve work units spawned while a thirteenth source was due,
\* and the one left out was due later than the others.
C14_Witness ==
    /\ call.op = "select"
    /\ Cardinality(call.spawned) = 12
    /\ \E q \in Eligible \ call.spawned : \A p \in call.spawned :
          Get(call.sources[p]["next_fetch_at"]) < Get(call.sources[q]["next_fetch_at"])

\* The incident events published for the item i, and the items some work
\* unit still has to hand to the clusterer.
IncidentEventsOf(evs, i) ==
    {e \in evs : e.event.type \in {"incident.created", "incident.updated"} /\ e.item_id = i}

Pending == UNION {{u.pending[k] : k \in DOMAIN u.pending} : u \in {units[p] : p \in DOMAIN units}}

\* One pass of the loop over the inserted items in the work unit of p.
ClusterStep(p) == units[p].pc = "cluster" /\ units'[p] # units[p]

\* C18: every inserted item gets exactly one incident event (none while it
\* waits for the clusterer, one from then on); the event is incident.created
\* when the item opened a new incident and incident.updated when it was added
\* to an incident that existed; a work unit publishes the events of its items
\* in the order in which it inserted them.
C18_OneIncidentEventPerItem ==
    /\ [](\A i \in DOMAIN conn.items :
            Cardinality(IncidentEventsOf(published, i)) = IF i \in Pending THEN 0 ELSE 1)
    /\ [][\A p \in DOMAIN units : ClusterStep(p) =>
            LET item_id == Head(units[p].pending)
            IN  /\ \A k \in DOMAIN units[p].pending : item_id <= units[p].pending[k]
                /\ units'[p].pending = Tail(units[p].pending)
                /\ \E e \in published' :
                      /\ published' = published \cup {e}
                      /\ e \notin published
                      /\ e.item_id = item_id
                      /\ e.event.type \in {"incident.created", "incident.updated"}
                      /\ e.event.type = "incident.created"
                            <=> e.event.incident_id \notin DOMAIN conn.incidents
                      /\ \E l \in conn'.links : l[2] = item_id]_vars

\* What holds of the code: an item of a batch that was inserted to its end
\* has no incident event while it waits for the clusterer and one from then
\* on; an item left behind by a batch that raised has none.
OneIncidentEventUnlessFailed ==
    \A i \in DOMAIN conn.items :
        Cardinality(IncidentEventsOf(published, i))
            = IF i \in Pending \/ OnlyInFailedCycles(conn.items[i].rec) THEN 0 ELSE 1

\* C18 witness: a work unit has published incident.created for one earthquake
\* item and then incident.updated, for the same incident, for the next one.
C18_Witness ==
    \E e1, e2 \in published :
        /\ e1.event.type = "incident.created"
        /\ e2.event.type = "incident.updated"
        /\ e1.event.incident_id = e2.event.incident_id
        /\ e1.item_id < e2.item_id
        /\ e1.item_id \in DOMAIN conn.items /\ e2.item_id \in DOMAIN conn.items
        /\ conn.items[e1.item_id].category = "earthquake"
        /\ conn.items[e2.item_id].category = "earthquake"
        /\ conn.items[e1.item_id].source_id = conn.items[e2.item_id].source_id
        /\ {l[1] : l \in {m \in conn.links : m[2] \in {e1.item_id, e2.item_id}}}
              = {e1.event.incident_id}
        /\ Pending = {}

(***************************************************************************)
(* Claims on the clusterer, checked under SpecCluster                      *)
(***************************************************************************)
\* The thresholds as the claim states them: tight and loose distance, and
\* the Jaccard floor as a fraction.
C19_Limits(category) ==
    IF category = "news" THEN <<4, 10, 60, 100>>
    ELSE IF category \in {"earthquake", "volcano", "tsunami"} THEN <<8, 14, 40, 100>>
    ELSE <<6, 12, 45, 100>>

\* The incidents of the item's category and bucket seen within the lookback,
\* when the call was made, and the distance of each to the item.
C19_Candidates ==
    {i \in DOMAIN call.incidents :
        /\ call.incidents[i].category = call.item.category
        /\ Bucket(call.incidents[i].incident_simhash) = Bucket(ItemSimhash(call.item))
        /\ call.incidents[i].last_seen_at >=
              call.t - (IF call.item.category = "news" THEN 24 ELSE 48) * 3600}

C19_Distance(i) == hamming_distance(ItemSimhash(call.item), call.incidents[i].incident_simhash)

\* The claim's rule for the candidate i.
C19_Rule(i) ==
    LET lim == C19_Limits(call.item.category)
        a == TokenSet(call.item.title \o call.item.summary)
        b == TokenSet(call.incidents[i].title \o call.incidents[i].summary)
        d == C19_Distance(i)
    IN  \/ d <= lim[1]
        \/ /\ lim[1] < d /\ d <= lim[2]
           /\ a # {} /\ b # {}
           /\ Cardinality(a \cap b) * lim[4] >= lim[3] * Cardinality(a \cup b)

C20_SeverityMonotone ==
    /\ \A i \in DOMAIN conn.incidents :
          conn.incidents[i].severity_score >= 0 /\ conn.incidents[i].severity_score <= 100
    /\ call.op = "assign" =>
          /\ call.item.severity >= 0 /\ call.item.severity <= 100
          /\ \A i \in DOMAIN call.incidents \cap DOMAIN conn.incidents :
                conn.incidents[i].severity_score >= call.incidents[i].severity_score
          /\ call.event.incident_id \in DOMAIN conn.incidents
          /\ conn.incidents[call.event.incident_id].severity_score >= call.item.severity
          /\ call.event.type = "incident.updated" =>
                /\ call.event.incident_id \in DOMAIN call.incidents
                /\ <<call.event.incident_id, call.item.item_id>> \in conn.links

\* C20 witness: a wildfire incident that holds ten items got an item of a
\* lower score than its own and its score rose by the density bonus.
C20_Witness ==
    /\ call.op = "assign"
    /\ call.event.type = "incident.updated"
    /\ call.item.category = "wildfire"
    /\ call.item.severity < call.incidents[call.event.incident_id].severity_score
    /\ conn.incidents[call.event.incident_id].item_count >= 10
    /\ conn.incidents[call.event.incident_id].severity_score
          > call.incidents[call.event.incident_id].severity_score

\* The highest severity among the items linked to an incident.
HighestItemSeverity(db, incident_id) ==
    LET scores == {db.items[i].severity : i \in LinkedItems(db, incident_id)}
    IN  CHOOSE m \in scores : \A x \in scores : x <= m

\* C40: for a wildfire incident the density bonus contained in
\* severity_score never exceeds 20: after any sequence of matched updates
\* the stored severity is at most min(100, highest severity among its items
\* + 20).
C40_WildfireBonusBounded ==
    \A i \in DOMAIN conn.incidents :
        conn.incidents[i].category = "wildfire" =>
            conn.incidents[i].severity_score
                <= Min(100, HighestItemSeverity(conn, i) + 20)

\* What holds of the code: one matched update of a wildfire incident stores
\* min(100, max(stored score, score of the item) + min(20, item_count // 10))
\* with the item_count after the update, so the score rises by 20 at most in
\* one update, on top of a stored score that holds the bonuses of the
\* updates before; an incident of less than ten items holds no bonus, and an
\* incident of another category stores the larger of the two scores.
WildfireBonusPerUpdate ==
    /\ \A i \in DOMAIN conn.incidents :
          conn.incidents[i].item_count < 10 =>
              conn.incidents[i].severity_score = HighestItemSeverity(conn, i)
    /\ (call.op = "assign" /\ call.event.type = "incident.updated") =>
          LET old == call.incidents[call.event.incident_id]
              new == conn.incidents[call.event.incident_id]
              larger == Max(old.severity_score, call.item.severity)
          IN  new.severity_score =
                  IF call.item.category = "wildfire"
                  THEN Min(100, larger + Min(20, new.item_count \div 10))
                  ELSE larger

(***************************************************************************)
(* Claims on locations and links, checked under SpecGeo                     *)
(***************************************************************************)
\* The incident an assignment added its item to, as it was before.
Before == call.incidents[call.event.incident_id]

\* The same incident after the assignment and its merges.
After == conn.incidents[call.event.incident_id]

\* The incidents the merges of an assignment absorbed.
Absorbed == DOMAIN call.incidents \ DOMAIN conn.incidents

\* C21: the location-confidence rank of an incident never decreases over
\* updates and merges; confidence and geometry are replaced, by the item's,
\* only when the rank of the item is strictly higher than the incident's;
\* lat/lon then become the item's, and otherwise change only to the centre
\* of the bbox that the item's geometry was merged into.
C21_RankMonotone ==
    call.op = "assign" =>
       /\ \A i \in DOMAIN call.incidents \cap DOMAIN conn.incidents :
             /\ _location_rank(conn.incidents[i].location_confidence)
                   >= _location_rank(call.incidents[i].location_confidence)
             /\ i # call.event.incident_id =>
                   /\ conn.incidents[i].location_confidence = call.incidents[i].location_confidence
                   /\ conn.incidents[i].geom = call.incidents[i].geom
                   /\ conn.incidents[i].loc = call.incidents[i].loc
       /\ call.event.type = "incident.updated" =>
             IF _location_rank(call.item.location_confidence)
                   > _location_rank(Before.location_confidence)
             THEN /\ After.location_confidence = call.item.location_confidence
                  /\ After.geom = call.item.geom
                  /\ After.loc = IF IsNone(ItemBbox(call.item)) THEN call.item.loc
                                 ELSE Some(_centroid_from_bbox(Get(After.bbox)))
             ELSE /\ After.location_confidence = Before.location_confidence
                  /\ After.geom = Before.geom
                  /\ After.loc # Before.loc =>
                        /\ ~IsNone(ItemBbox(call.item)) /\ ~IsNone(Before.bbox)
                        /\ After.loc = Some(_centroid_from_bbox(Get(After.bbox)))

\* C21 witness: an item of a lower rank was added to an incident, which kept
\* its confidence and absorbed another incident in the same assignment.
C21_Witness ==
    /\ call.op = "assign"
    /\ call.event.type = "incident.updated"
    /\ _location_rank(call.item.location_confidence) < _location_rank(Before.location_confidence)
    /\ After.location_confidence = Before.location_confidence
    /\ Absorbed # {}

\* The <<lon, lat>> pairs an item records: its lat/lon and the corners of the
\* extent of its geometry.
ItemCoordinates(item) ==
    (IF IsNone(item.loc) THEN {} ELSE {<<Get(item.loc)[2], Get(item.loc)[1]>>})
    \cup (IF IsNone(ItemBbox(item)) THEN {}
          ELSE {<<Get(ItemBbox(item))[1], Get(ItemBbox(item))[2]>>,
                <<Get(ItemBbox(item))[3], Get(ItemBbox(item))[4]>>})

\* The pair q lies in the bbox, which an incident without a bbox has not.
BboxContains(bbox, q) ==
    /\ ~IsNone(bbox)
    /\ Get(bbox)[1] <= q[1] /\ q[1] <= Get(bbox)[3]
    /\ Get(bbox)[2] <= q[2] /\ q[2] <= Get(bbox)[4]

\* C22: in every reachable state the bbox of an incident contains the
\* coordinates (lat/lon and geometry extents) of every item added to it so
\* far, items that came by a promotion or by a merge included.
C22_BboxContainsItems ==
    \A l \in conn.links :
       (l[1] \in DOMAIN conn.incidents /\ l[2] \in DOMAIN conn.items) =>
          \A q \in ItemCoordinates(conn.items[l[2]]) :
             BboxContains(conn.incidents[l[1]].bbox, q)

\* C23: in every committed state no item is linked to more than one incident,
\* also after _maybe_merge_incidents moved the links of the incidents it
\* absorbed to the surviving one.
C23_AtMostOneIncident ==
    \A i \in DOMAIN disk.items : Cardinality({l \in disk.links : l[2] = i}) <= 1

\* C23 witness: an assignment absorbed an incident, and the items that were
\* linked to it are committed as items of the surviving incident.
C23_Witness ==
    /\ call.op = "assign"
    /\ call.event.type = "incident.updated"
    /\ \E a \in Absorbed : \E i \in DOMAIN disk.items :
          /\ i # call.item.item_id
          /\ disk.items[i].rec \in DOMAIN GeoPool
          /\ <<call.event.incident_id, i>> \in disk.links
          /\ \A b \in DOMAIN call.incidents : b # a => <<b, i>> \notin disk.links \/ b = call.event.incident_id
          /\ call.incidents[a].item_count >= 1
          /\ call.event.incident_id \in DOMAIN call.incidents
          /\ After.item_count > Before.item_count + 1

\* The items linked to an incident before the assignment, and after it.
LinkedBefore(a) == {l[2] : l \in {k \in call.links : k[1] = a}}
LinkedAfter(a) == {l[2] : l \in {k \in conn.links : k[1] = a}}

\* C31: when _maybe_merge_incidents merges another incident into the updated
\* one, every item that was linked to the absorbed incident is afterwards
\* linked to the surviving incident, the absorbed incident and its own links
\* exist no more, no item is lost, and item_count and source_count of the
\* survivor are counted again; an incident is absorbed only if it has the
\* category of the survivor, lies within max_km and the maximal SimHash
\* distance of the category, and was seen within the category's lookback.
C31_MergeReparents ==
    (call.op = "assign" /\ Absorbed # {}) =>
       /\ call.event.type = "incident.updated"
       /\ call.event.incident_id \in DOMAIN conn.incidents
       /\ \A a \in Absorbed :
             /\ LinkedBefore(a) \subseteq LinkedAfter(call.event.incident_id)
             /\ LinkedAfter(a) = {}
             /\ LinkedBefore(a) \subseteq DOMAIN conn.items
             /\ call.incidents[a].category = After.category
             /\ ~IsNone(call.incidents[a].loc) /\ ~IsNone(After.loc)
             /\ PlaceKm(Get(After.loc), Get(call.incidents[a].loc))
                    <= MergeLimits(After.category).km
             /\ hamming_distance(After.incident_simhash, call.incidents[a].incident_simhash)
                    <= MergeLimits(After.category).dist
             /\ call.incidents[a].last_seen_at
                    >= call.t - MergeLimits(After.category).hours * 3600
       /\ LinkedAfter(call.event.incident_id)
             = LinkedBefore(call.event.incident_id) \cup {call.item.item_id}
                  \cup UNION {LinkedBefore(a) : a \in Absorbed}
       /\ After.item_count = Cardinality(LinkedAfter(call.event.incident_id))
       /\ After.source_count
             = Cardinality({conn.items[i].source_id : i \in LinkedAfter(call.event.incident_id)})
       /\ disk = conn

\* C31 witness: an assignment absorbed an incident that held an item of
\* another source, and the survivor now counts both sources.
C31_Witness ==
    /\ call.op = "assign"
    /\ \E a \in Absorbed :
          /\ LinkedBefore(a) # {}
          /\ LinkedBefore(a) \subseteq LinkedAfter(call.event.incident_id)
          /\ \E i \in LinkedBefore(a) : conn.items[i].source_id # call.item.source_id
    /\ After.source_count >= 2
    /\ After.item_count >= 2

\* C32: whenever assign_item_to_incident commits (on the create path, the
\* match path and the match path with merges), the stored item_count of the
\* affected incident is the number of its incident_items rows and its
\* source_count the number of distinct source_id values among those items.
C32_CountsMatchLinks ==
    (call.op = "assign" /\ call.raised = "none") =>
       /\ disk = conn
       /\ call.event.incident_id \in DOMAIN disk.incidents
       /\ <<call.event.incident_id, call.item.item_id>> \in disk.links
       /\ disk.incidents[call.event.incident_id].item_count
             = Cardinality({l \in disk.links : l[1] = call.event.incident_id})
       /\ disk.incidents[call.event.incident_id].source_count
             = Cardinality({disk.items[l[2]].source_id :
                              l \in {k \in disk.links : k[1] = call.event.incident_id}})

\* C32 witness: a match with a merge has left an incident that holds more
\* items than sources.
C32_Witness ==
    /\ call.op = "assign"
    /\ call.event.type = "incident.updated"
    /\ Absorbed # {}
    /\ After.source_count >= 2
    /\ After.item_count > After.source_count

\* C33: the item_count, source_count and severity_score an incident.updated
\* event carries are the values stored for the incident when the clustering
\* transaction that produced the event commits, also when that transaction
\* merged other incidents into it.
C33_EventCarriesStored ==
    (call.op = "assign" /\ call.raised = "none" /\ call.event.type = "incident.updated") =>
       /\ call.event.item_count = disk.incidents[call.event.incident_id].item_count
       /\ call.event.source_count = disk.incidents[call.event.incident_id].source_count
       /\ call.event.severity_score = disk.incidents[call.event.incident_id].severity_score

\* What holds of the code: the event carries the stored severity_score, and
\* the stored counts when the transaction absorbed no incident; after a merge
\* it carries the counts of before the merge, which are lower than the stored
\* item_count by the items of the absorbed incidents.
EventCarriesStoredUnlessMerged ==
    (call.op = "assign" /\ call.raised = "none" /\ call.event.type = "incident.updated") =>
       /\ call.event.severity_score = After.severity_score
       /\ Absorbed = {} =>
             /\ call.event.item_count = After.item_count
             /\ call.event.source_count = After.source_count
       /\ call.event.item_count = Cardinality(LinkedBefore(call.event.incident_id)) + 1
       /\ After.item_count = call.event.item_count
             + Cardinality(UNION {LinkedBefore(a) : a \in Absorbed})

(***************************************************************************)
(* Claims on the progress of a batch, checked under SpecSchedFair          *)
(***************************************************************************)
\* No work unit of the batch is under way.
BatchOver == \A p \in DOMAIN units : units[p].pc \in {"none", "done", "raised"}

\* Every permit of the global semaphore and of every host semaphore is free.
AllReleased ==
    /\ sems.global = GlobalLimit
    /\ \A h \in DOMAIN sems.hosts : sems.hosts[h] = 1

\* C38: provided every HTTP request terminates, every batch of work units
\* spawned in one scheduler cycle eventually completes: acquiring the global
\* semaphore and then the semaphore of the host never deadlocks, both are
\* released on every exit path, and the scheduler loop reaches its next
\* cycle.
C38_BatchCompletes ==
    /\ (sched.pc = "gather") ~> BatchOver
    /\ [](BatchOver => AllReleased)
    /\ (sched.pc = "gather") ~> (sched.pc = "idle")

\* What holds of the code: every work unit of a batch comes to its end, by
\* return or by exception, with the semaphores released; the loop reaches
\* its next cycle unless a work unit has ended with an exception, which ends
\* run_scheduler.
BatchCompletesOrCrashes ==
    /\ (sched.pc = "gather") ~> BatchOver
    /\ [](BatchOver => AllReleased)
    /\ (sched.pc = "gather") ~> (sched.pc \in {"idle", "crashed"})
    /\ [](sched.pc = "crashed" => \E p \in DOMAIN units : units[p].pc = "raised")

(***************************************************************************)
(* Claims on the progress of the scheduler, checked under SpecLive         *)
(***************************************************************************)
\* Polling is enabled and the row of p is enabled and due.
DueNow(p) ==
    /\ conn.polling # Some("0")
    /\ conn.sources[p]["enabled"] = 1
    /\ Get(conn.sources[p]["next_fetch_at"]) <= now

\* C29: while polling is enabled, every enabled source that has a registered
\* plugin and whose next_fetch_at has passed is eventually handed to a work
\* unit, whatever other rows the sources table holds.
C29_EventuallyDispatched ==
    \A p \in LivePlugins : DueNow(p) ~> (units[p].pc # "none")

\* What the scheduler does achieve: the same while fewer than DueLimit rows
\* without a plugin are due and no work unit has ended with an exception.
Unhindered ==
    /\ Cardinality(Due(conn, now) \ LivePlugins) < DueLimit
    /\ sched.pc # "crashed"
    /\ \A p \in LivePlugins : units[p].pc # "raised"

DispatchedUnlessHindered ==
    \A p \in LivePlugins : DueNow(p) ~> (units[p].pc # "none" \/ ~ Unhindered)

(***************************************************************************)
(* Claims on retention, checked under SpecRetention                        *)
(***************************************************************************)
\* Seconds between last_seen_at of the incident and the pass.
AgeAtPass(incident) == call.t - incident.last_seen_at

\* C24: immediately after a retention pass every incident last seen more than
\* 72 hours before it is resolved, every incident that was active and last
\* seen more than 24 and at most 72 hours before it is cooling, and every
\* incident last seen at most 24 hours before it has the status it had.
C24_RetentionStatuses ==
    call.op = "retention" =>
       /\ \A i \in DOMAIN disk.incidents :
             AgeAtPass(disk.incidents[i]) > 72 * 3600 => disk.incidents[i].status = "resolved"
       /\ \A i \in DOMAIN call.incidents :
             /\ (/\ call.incidents[i].status = "active"
                 /\ AgeAtPass(call.incidents[i]) > 24 * 3600
                 /\ AgeAtPass(call.incidents[i]) <= 72 * 3600)
                => (i \in DOMAIN disk.incidents /\ disk.incidents[i].status = "cooling")
             /\ AgeAtPass(call.incidents[i]) <= 24 * 3600
                => (/\ i \in DOMAIN disk.incidents
                    /\ disk.incidents[i].status = call.incidents[i].status)

\* C24 witness: one pass resolved an incident, cooled another and left a
\* third, seen 6 hours before, active.
C24_Witness ==
    /\ call.op = "retention"
    /\ \E i, j, k \in DOMAIN disk.incidents :
          /\ call.incidents[i].status # "resolved" /\ disk.incidents[i].status = "resolved"
          /\ call.incidents[j].status = "active" /\ disk.incidents[j].status = "cooling"
          /\ AgeAtPass(call.incidents[k]) = 6 * 3600 /\ disk.incidents[k].status = "active"

\* An item is held by an incident that is active or cooling.
HeldByLiveIncident(db, i) ==
    \E l \in db.links :
       /\ l[2] = i
       /\ l[1] \in DOMAIN db.incidents
       /\ db.incidents[l[1]].status \in {"active", "cooling"}

\* C25: immediately after a retention pass no resolved incident was last seen
\* more than incidents_retention_days before it, and no item was published
\* more than items_retention_days before it unless an active or cooling
\* incident holds it.
C25_RetentionDeletes ==
    call.op = "retention" =>
       /\ \A i \in DOMAIN disk.incidents :
             ~ (/\ disk.incidents[i].status = "resolved"
                /\ AgeAtPass(disk.incidents[i]) > incidents_retention_days * DaySeconds)
       /\ \A i \in DOMAIN disk.items :
             call.t - Instant(disk.items[i]) > items_retention_days * DaySeconds
                => HeldByLiveIncident(disk, i)

\* What the pass does keep of C25: the same with the date and time of day of
\* the published_at text taken as if it were UTC.
RetentionByText ==
    call.op = "retention" =>
       /\ \A i \in DOMAIN disk.incidents :
             ~ (/\ disk.incidents[i].status = "resolved"
                /\ AgeAtPass(disk.incidents[i]) > incidents_retention_days * DaySeconds)
       /\ \A i \in DOMAIN disk.items :
             call.t - disk.items[i].published_at > items_retention_days * DaySeconds
                => HeldByLiveIncident(disk, i)

\* C34: an incident that has just received an item (a match set its
\* last_seen_at to now) is active: no incident whose last_seen_at lies within
\* the last 24 hours is cooling or resolved.
C34_RecentIsActive ==
    /\ (call.op = "assign" /\ call.raised = "none")
          => conn.incidents[call.event.incident_id].status = "active"
    /\ \A i \in DOMAIN conn.incidents :
          now - conn.incidents[i].last_seen_at < 24 * 3600
             => conn.incidents[i].status = "active"

\* What holds of the code: an assignment leaves the status of the incident
\* as it was (a new incident is active), so an incident seen within the last
\* 24 hours is active unless a match found it cooling; it is never resolved.
StatusKeptByMatch ==
    /\ (call.op = "assign" /\ call.raised = "none") =>
          conn.incidents[call.event.incident_id].status
             = IF call.event.type = "incident.created" THEN "active" ELSE Before.status
    /\ \A i \in DOMAIN conn.incidents :
          now - conn.incidents[i].last_seen_at < 24 * 3600 =>
             conn.incidents[i].status # "resolved"

(***************************************************************************)
(* Claims on the life of an incident, checked under SpecLife               *)
(***************************************************************************)
\* active, cooling, resolved in the order retention moves an incident.
StatusRank(status) ==
    CASE status = "active" -> 0 [] status = "cooling" -> 1 [] OTHER -> 2

\* C35: under a clock that does not go back, an incident retention has set to
\* resolved is never again chosen as the match for a new item and never takes
\* part in a merge, as survivor or as absorbed incident, and no operation
\* moves the status of an incident backwards (resolved to cooling or active,
\* cooling to active).
C35_ResolvedIsTerminal ==
    /\ [](call.op = "assign" =>
            /\ call.event.type = "incident.updated" => Before.status # "resolved"
            /\ \A a \in Absorbed : call.incidents[a].status # "resolved"
            /\ Absorbed # {} => After.status # "resolved")
    /\ [][\A i \in DOMAIN conn.incidents \cap DOMAIN conn'.incidents :
            StatusRank(conn'.incidents[i].status) >= StatusRank(conn.incidents[i].status)]_vars

\* C35 witness: an item was added to an incident while a resolved incident
\* of its category and text lay within max_km of that incident, and the merge
\* left the resolved incident alone.
C35_Witness ==
    /\ call.op = "assign"
    /\ call.event.type = "incident.updated"
    /\ Absorbed = {}
    /\ \E r \in DOMAIN conn.incidents :
          /\ r # call.event.incident_id
          /\ conn.incidents[r].status = "resolved"
          /\ conn.incidents[r].category = call.item.category
          /\ ~IsNone(conn.incidents[r].loc) /\ ~IsNone(After.loc)
          /\ PlaceKm(Get(After.loc), Get(conn.incidents[r].loc))
                <= MergeLimits(call.item.category).km
          /\ LinkedAfter(r) # {}

(***************************************************************************)
(* Claims on canonicalize_url, checked under SpecUrl                       *)
(***************************************************************************)
\* The fields of a query that are no tracking fields, as the bytes they
\* stand for.
OtherParams(qs) ==
    LET kept == SelectSeq(parse_qsl(qs), KeepsPair)
        raw == RawPairs(qs)
        at == {k \in DOMAIN raw : KeepsPair(Decoded(raw[k], unquote))}
        Nth(n) == CHOOSE k \in at : Cardinality({j \in at : j < k}) = n - 1
    IN  [n \in DOMAIN kept |-> Decoded(raw[Nth(n)], unquote_to_bytes)]

\* C26: canonicalize_url applied to its own result changes nothing, and the
\* result has a lowercased host, no fragment, no query key that casefolds to
\* a name beginning with utm_ or to one of the five tracking names, and
\* every other query parameter of the URL it was given.
C26_Canonical ==
    call.op = "canonicalize_url" =>
       /\ canonicalize_url(call.out) = call.out
       /\ urlsplit(call.out).netloc = str_casefold(urlsplit(call.out).netloc)
       /\ urlsplit(call.out).fragment = <<>>
       /\ \A k \in DOMAIN call.out : call.out[k] # "#"
       /\ \A k \in DOMAIN parse_qsl(urlsplit(call.out).query) :
             ~ IsTracking(parse_qsl(urlsplit(call.out).query)[k][1])
       /\ OtherParams(urlsplit(call.out).query) = OtherParams(urlsplit(call.url).query)

\* The URLs on which C26 does hold: those that name an authority or whose
\* path does not begin with two slashes, and whose escapes are UTF-8 text.
WellFormed(url) ==
    /\ (urlsplit(url).netloc # <<>> \/ ~ BeginsSlashSlash(urlsplit(url).path))
    /\ \A k \in DOMAIN url : url[k] # "%E9"

CanonicalWellFormed ==
    (call.op = "canonicalize_url" /\ WellFormed(call.url)) =>
       /\ C26_Canonical
       /\ WellFormed(call.out)

(***************************************************************************)
(* Claims on the event bus, checked under SpecBus                          *)
(***************************************************************************)
\* The events a subscription was given and has not lost: those its handler
\* took, then those waiting in its queue.
Given(q) == trace.got[q] \o bus.queues[q]

Increasing(seq) == \A i \in 1..(Len(seq) - 1) : seq[i] < seq[i + 1]

\* C15: every subscriber queue holds at most 200 events; a publish to a
\* subscriber whose queue is full removes exactly its oldest event and appends
\* the new one; a publish never raises and the new event is never dropped.
C15_QueueBounded ==
    /\ \A q \in QueueIds : Len(bus.queues[q]) <= 200
    /\ call.op = "publish" =>
          /\ call.raised = "none"
          /\ \A q \in call.subscribers :
                bus.queues[q] =
                    IF Len(call.pre[q]) = 200
                    THEN Append(Tail(call.pre[q]), call.event)
                    ELSE Append(call.pre[q], call.event)

\* C15 witness: a publish met a full queue.
C15_Witness ==
    /\ call.op = "publish"
    /\ \E q \in call.subscribers : Len(call.pre[q]) = 200 /\ Len(bus.queues[q]) = 200

\* C16: the events a subscriber dequeues, and those still waiting for it,
\* are in publish order and were all published after it subscribed.
C16_OrderPreserved ==
    \A q \in QueueIds :
        LET given == Given(q)
        IN  /\ Increasing(given)
            /\ \A i \in DOMAIN given : given[i] > trace.since[q] /\ given[i] <= trace.n

\* C16 witness: a subscriber that lost events to a full queue has dequeued
\* two events.
C16_Witness ==
    \E q \in QueueIds :
        /\ Len(trace.got[q]) >= 2
        /\ trace.got[q][1] > trace.since[q] + 1

\* C17: publish appends the event to the queue of every subscription
\* registered when it is called and leaves every other queue alone: no queue
\* is given an event published before its subscribe or after its unsubscribe.
C17_ExactlyCurrentSubscribers ==
    /\ call.op = "publish" =>
          /\ call.subscribers =
                {q \in QueueIds : trace.since[q] # -1 /\ trace.since[q] < call.event
                                  /\ (trace.until[q] = -1 \/ trace.until[q] >= call.event)}
          /\ \A q \in QueueIds :
                IF q \in call.subscribers
                THEN bus.queues[q] # <<>> /\ bus.queues[q][Len(bus.queues[q])] = call.event
                ELSE bus.queues[q] = call.pre[q]
    /\ \A q \in QueueIds :
          LET given == Given(q)
          IN  \A i \in DOMAIN given :
                /\ given[i] > trace.since[q]
                /\ trace.until[q] # -1 => given[i] <= trace.until[q]

\* C17 witness: an event was published while one subscription was registered,
\* one had been removed and one had not been made yet.
C17_Witness ==
    /\ call.op = "publish"
    /\ call.subscribers # {}
    /\ \E q \in QueueIds : trace.until[q] # -1 /\ trace.until[q] < call.event
    /\ \E q \in QueueIds : trace.since[q] = -1

(***************************************************************************)
(* Claims on the health tracker                                            *)
(***************************************************************************)
\* C8: record_fetch_error on an existing source raises consecutive_failures by
\* exactly 1 to a new value f, raises error_count by 1, stores the error kind,
\* sets next_fetch_at = now + min(3600, poll_interval_seconds * 2^f) and
\* returns exactly that number of seconds.
C8_RecordErrorEffect ==
    (call.op = "error" /\ ~IsNone(call.pre)) =>
        /\ call.raised = "none"
        /\ LET pre == Get(call.pre)
               row == conn.sources[call.source_id]
               f == pre["consecutive_failures"] + 1
               b == Min(3600, pre["poll_interval_seconds"] * (2 ^ f))
           IN  /\ row["consecutive_failures"] = f
               /\ row["error_count"] = pre["error_count"] + 1
               /\ row["last_error"] = Some(call.error)
               /\ row["next_fetch_at"] = Some(call.t + b)
               /\ call.ret = b
               /\ disk = conn

\* record_fetch_error has returned for a source that has a row.
ErrorReturned == call.op = "error" /\ ~IsNone(call.pre) /\ call.raised = "none"

\* C39: the delay applied after a fetch error is never shorter than the poll
\* interval of the source, and for a fixed poll interval
\* compute_backoff_seconds never returns a smaller value for a larger number
\* of consecutive failures.
C39_BackoffNeverShorter ==
    ErrorReturned =>
        LET pre == Get(call.pre)
            row == conn.sources[call.source_id]
            poll == pre["poll_interval_seconds"]
        IN  /\ call.ret >= poll
            /\ Get(row["next_fetch_at"]) >= call.t + poll
            /\ \A f \in 0 .. row["consecutive_failures"] :
                  \A g \in 0 .. f :
                      compute_backoff_seconds(poll, g) <= compute_backoff_seconds(poll, f)

\* What holds of the code: the delay is min(3600, poll * 2^f) with f >= 1, so
\* it is never shorter than the smaller of the poll interval and one hour,
\* and compute_backoff_seconds does not fall from one number of failures to
\* a larger one when both are at least 1; for a poll interval of one hour at
\* most it does not fall from 0 failures on either.
BackoffNeverShorterUpToCap ==
    ErrorReturned =>
        LET pre == Get(call.pre)
            row == conn.sources[call.source_id]
            poll == pre["poll_interval_seconds"]
        IN  /\ call.ret >= Min(MaxBackoff, poll)
            /\ call.ret <= MaxBackoff
            /\ row["next_fetch_at"] = Some(call.t + call.ret)
            /\ \A f \in 0 .. row["consecutive_failures"] :
                  \A g \in 0 .. f :
                      (g >= 1 \/ poll <= MaxBackoff) =>
                          compute_backoff_seconds(poll, g) <= compute_backoff_seconds(poll, f)

\* C9: record_fetch_success sets last_success_at and last_fetch_at to now,
\* resets consecutive_failures to 0 and clears last_error, sets next_fetch_at =
\* now + next_fetch_in_seconds and raises success_count by exactly 1, whatever
\* the number of preceding failures.
C9_RecordSuccessEffect ==
    (call.op = "success" /\ ~IsNone(call.pre)) =>
        /\ call.raised = "none"
        /\ LET pre == Get(call.pre)
               row == conn.sources[call.source_id]
           IN  /\ row["last_success_at"] = Some(call.t)
               /\ row["last_fetch_at"] = Some(call.t)
               /\ row["consecutive_failures"] = 0
               /\ row["last_error"] = None
               /\ row["next_fetch_at"] = Some(call.t + call.next_in)
               /\ row["success_count"] = pre["success_count"] + 1
               /\ disk = conn

====
